---------------------------- MODULE Spec2Model ----------------------------
(***************************************************************************)
(* A model of the NMR spectrum analysis core: CubicSpline (fit, evaluate,  *)
(* findCrossings), Integration::adaptive, and PeakDetector (detectPeaks,   *)
(* integratePeaks, calculateHydrogens).                                    *)
(*                                                                         *)
(* Numbers.  The program computes in IEEE doubles.  Here a double is an    *)
(* integer count of units of 1/Scale (fixed point); every multiplication   *)
(* and division rounds its exact result to the nearest unit, as a double   *)
(* operation rounds to the nearest representable number.  The three        *)
(* non-finite doubles are the values PosInf, NegInf and NaN below, and the *)
(* arithmetic and the comparisons treat them as IEEE 754 does.             *)
(*                                                                         *)
(* Indices.  C++ vectors are 0-based, TLA+ sequences 1-based: element i of *)
(* a vector is element i+1 of the sequence that models it.                 *)
(***************************************************************************)
EXTENDS Integers, Sequences, FiniteSets, TLC

VARIABLES
    spline,     \* the CubicSpline object: fields x, y, b, c, d, computed
    pc,         \* position of the running scenario
    call,       \* the last CubicSpline::compute call: arguments, result, state before
    calls,      \* number of compute calls made so far
    args,       \* Integration::adaptive's arguments a, b, tolerance
    stack,      \* the call stack of adaptiveHelper, innermost call last
    retVal,     \* the value the adaptiveHelper call that just returned handed back
    result,     \* the value Integration::adaptive returned
    input,      \* the filtered samples xData, yData and the baseline
    found,      \* detectPeaks's crossing list at its return, and how each pair ended
    peaks,      \* the vector<Peak> detectPeaks returned, as the later passes update it
    integ,      \* the integrationType and tolerance handed to integratePeaks
    minArea,    \* the minArea calculateHydrogens divided by
    query,      \* the last query made on the spline, with what it returned
    filtered,   \* a call of Filter::applyBoxcar or applySavitzkyGolay and its result
    nc,         \* the locals of a running Integration::newtonCotes call
    rom,        \* the locals of a running Integration::romberg call
    evals,      \* the spline evaluations of the running Integration::adaptive call
    main        \* main's Config object and the files main has written

splineVars == <<spline, call, calls>>
adaptiveVars == <<args, stack, retVal, result>>
peakVars == <<input, found, peaks, integ, minArea>>
unitVars == <<query, filtered, nc, rom, evals, main>>
vars == <<spline, pc, call, calls, args, stack, retVal, result,
          input, found, peaks, integ, minArea, query, filtered, nc, rom, evals,
          main>>

---------------------------------------------------------------------------
(* Bounds of the model *)

\* units per 1.0 of the fixed-point numbers
Scale == 1000
\* longest knot sequence handed to compute in SplineSpec
MaxKnots == 3
\* compute calls per behaviour of SplineSpec
MaxCalls == 2
\* adaptiveHelper calls the model lets nest beyond the outermost one
DepthCap == 8
\* longest sequence handed to a filter in FilterSpec
MaxData == 3
\* largest number of passes asked of a filter in FilterSpec
MaxPasses == 2
\* longest peak list handed to calculateHydrogens in HydrogenSpec
MaxPeaks == 3
\* largest number of knots of the splines searched in LocateSpec
MaxGrid == 5

---------------------------------------------------------------------------
(* Constants of the program *)

\* numSamples of CubicSpline::findCrossings
numSamples == 1000
\* the iteration cap of the bisection loop of CubicSpline::findCrossings
maxBisect == 50
\* maxIterations of Integration::newtonCotes
maxIterations == 20
\* maxLevel of Integration::romberg
maxLevel == 15

---------------------------------------------------------------------------
(* Double arithmetic *)

PosInf == 2^30
NegInf == -(2^30)
NaN == 2^30 + 1

IsNaN(v) == v = NaN
IsInf(v) == v = PosInf \/ v = NegInf
IsFinite(v) == ~IsNaN(v) /\ ~IsInf(v)

Abs(n) == IF n < 0 THEN -n ELSE n
Sign(n) == IF n < 0 THEN -1 ELSE IF n > 0 THEN 1 ELSE 0

\* the rounding of an operation whose exact result is n / d (d # 0): the
\* nearest number, halves away from zero; a non-zero exact result never rounds
\* to zero (the program's data are far from the underflow range of a double)
RDiv(n, d) ==
    LET q == (2 * Abs(n) + Abs(d)) \div (2 * Abs(d))
        r == IF q = 0 /\ n # 0 THEN 1 ELSE q
    IN  IF (n < 0) # (d < 0) THEN -r ELSE r

\* the double nearest to the decimal literal n/d
Lit(n, d) == RDiv(n * Scale, d)

\* comparisons: every comparison with NaN is false
FLt(u, v) == ~IsNaN(u) /\ ~IsNaN(v) /\ u < v
FLe(u, v) == ~IsNaN(u) /\ ~IsNaN(v) /\ u <= v
FGt(u, v) == FLt(v, u)
FGe(u, v) == FLe(v, u)

FNeg(u) == IF IsNaN(u) THEN NaN ELSE -u

FAdd(u, v) ==
    IF IsNaN(u) \/ IsNaN(v) THEN NaN
    ELSE IF IsInf(u) /\ IsInf(v) THEN (IF u = v THEN u ELSE NaN)
    ELSE IF IsInf(u) THEN u
    ELSE IF IsInf(v) THEN v
    ELSE u + v

FSub(u, v) == FAdd(u, FNeg(v))

FMul(u, v) ==
    IF IsNaN(u) \/ IsNaN(v) THEN NaN
    ELSE IF IsInf(u) \/ IsInf(v)
         THEN (IF u = 0 \/ v = 0 THEN NaN
               ELSE IF Sign(u) = Sign(v) THEN PosInf ELSE NegInf)
    ELSE RDiv(u * v, Scale)

FDiv(u, v) ==
    IF IsNaN(u) \/ IsNaN(v) THEN NaN
    ELSE IF IsInf(u) /\ IsInf(v) THEN NaN
    ELSE IF IsInf(u) THEN (IF Sign(u) * Sign(v) < 0 THEN NegInf ELSE PosInf)
    ELSE IF IsInf(v) THEN 0
    ELSE IF v = 0 THEN (IF u = 0 THEN NaN ELSE IF u > 0 THEN PosInf ELSE NegInf)
    ELSE RDiv(u * Scale, v)

FAbs(u) == IF IsNaN(u) THEN NaN ELSE Abs(u)

\* the double of a small integer constant of the source (2.0, 6.0, ...)
Num(k) == k * Scale

---------------------------------------------------------------------------
(* CubicSpline *)

\* std::vector<double>::resize(n): keeps the first n elements, appends 0.0
Resize(v, n) == [i \in 1..n |-> IF i <= Len(v) THEN v[i] ELSE 0]

\* CubicSpline::CubicSpline()
NewSpline == [x |-> <<>>, y |-> <<>>, b |-> <<>>, c |-> <<>>, d |-> <<>>,
              computed |-> FALSE]

\* interval widths h_i = x_{i+1} - x_i (h[i] of the source is Widths(x)[i+1])
Widths(x) == [i \in 1..(Len(x) - 1) |-> FSub(x[i + 1], x[i])]

\* the rows of the tridiagonal system A M = rhs for M_1 .. M_{n-2}: row k
\* (1-based) holds the sub-diagonal, diagonal and super-diagonal entries of
\* row k-1 of A and rhs(k-1); entries the source leaves at zero are 0
TriRow(h, y, m, k) ==
    LET slope(i) == FDiv(FSub(y[i + 1], y[i]), h[i])
    IN  [sub   |-> IF k > 1 THEN h[k] ELSE 0,
         diag  |-> FMul(Num(2), FAdd(h[k], h[k + 1])),
         sup   |-> IF k < m THEN h[k + 1] ELSE 0,
         rhs   |-> FMul(Num(6), FSub(slope(k + 1), slope(k)))]

TriSystem(h, y, m) == [k \in 1..m |-> TriRow(h, y, m, k)]

\* arma::solve(A, rhs) for the tridiagonal A: forward elimination ...
RECURSIVE Eliminate(_, _)
Eliminate(sys, k) ==
    IF k = 1
    THEN <<[cp |-> FDiv(sys[1].sup, sys[1].diag),
            dp |-> FDiv(sys[1].rhs, sys[1].diag)]>>
    ELSE LET prev == Eliminate(sys, k - 1)
             den  == FSub(sys[k].diag, FMul(sys[k].sub, prev[k - 1].cp))
         IN  Append(prev,
                    [cp |-> FDiv(sys[k].sup, den),
                     dp |-> FDiv(FSub(sys[k].rhs, FMul(sys[k].sub, prev[k - 1].dp)),
                                 den)])

\* ... and back substitution
RECURSIVE BackSubst(_, _, _)
BackSubst(el, m, k) ==
    IF k = m
    THEN [i \in {m} |-> el[m].dp]
    ELSE LET rest == BackSubst(el, m, k + 1)
         IN  [i \in k..m |-> IF i = k
                             THEN FSub(el[k].dp, FMul(el[k].cp, rest[k + 1]))
                             ELSE rest[i]]

Solve(sys) ==
    LET m  == Len(sys)
        el == Eliminate(sys, m)
        s  == BackSubst(el, m, 1)
    IN  [k \in 1..m |-> s[k]]

\* coefficients whose c[i] is taken from the second derivative at the right
\* end of interval i, not the left
CoefficientsFromRight(x, y, h, M) ==
    LET n == Len(x)
        dI(i) == FDiv(FSub(M[i + 1], M[i]), FMul(Num(6), h[i]))
        cI(i) == FDiv(M[i + 1], Num(2))
        bI(i) == FSub(FDiv(FSub(y[i + 1], y[i]), h[i]),
                      FDiv(FMul(h[i], FAdd(FMul(Num(2), M[i]), M[i + 1])), Num(6)))
    IN  [b |-> [i \in 1..n |-> IF i < n THEN bI(i) ELSE bI(n - 1)],
         c |-> [i \in 1..n |-> IF i < n THEN cI(i) ELSE cI(n - 1)],
         d |-> [i \in 1..n |-> IF i < n THEN dI(i) ELSE dI(n - 1)]]

\* the coefficient arrays of the n >= 3 case, from the second derivatives M
Coefficients(x, y, h, M) ==
    LET n == Len(x)
        dI(i) == FDiv(FSub(M[i + 1], M[i]), FMul(Num(6), h[i]))
        cI(i) == FDiv(M[i], Num(2))
        bI(i) == FSub(FDiv(FSub(y[i + 1], y[i]), h[i]),
                      FDiv(FMul(h[i], FAdd(FMul(Num(2), M[i]), M[i + 1])), Num(6)))
    IN  [b |-> [i \in 1..n |-> IF i < n THEN bI(i) ELSE bI(n - 1)],
         c |-> [i \in 1..n |-> IF i < n THEN cI(i) ELSE cI(n - 1)],
         d |-> [i \in 1..n |-> IF i < n THEN dI(i) ELSE dI(n - 1)]]

\* CubicSpline::compute(xData, yData) on the object s: the returned value
\* and the object after the call
compute(s, xData, yData) ==
    IF Len(xData) # Len(yData) \/ Len(xData) < 2
    THEN [ret |-> FALSE, obj |-> s]
    ELSE
      LET n  == Len(xData)
          s1 == [s EXCEPT !.x = xData, !.y = yData,
                          !.b = Resize(s.b, n), !.c = Resize(s.c, n),
                          !.d = Resize(s.d, n)]
          h  == Widths(xData)
      IN  IF n = 2
          THEN LET b0 == FDiv(FSub(yData[2], yData[1]), FSub(xData[2], xData[1]))
               IN  [ret |-> TRUE,
                    obj |-> [s1 EXCEPT !.b = <<b0, b0>>, !.c = <<0, 0>>,
                                       !.d = <<0, 0>>, !.computed = TRUE]]
          ELSE IF \E i \in 1..(n - 1) : FLe(h[i], 0)
          THEN [ret |-> FALSE, obj |-> s1]
          ELSE LET Mi == Solve(TriSystem(h, yData, n - 2))
                   M  == [i \in 1..n |-> IF i = 1 \/ i = n THEN 0 ELSE Mi[i - 1]]
                   co == Coefficients(xData, yData, h, M)
               IN  [ret |-> TRUE,
                    obj |-> [s1 EXCEPT !.b = co.b, !.c = co.c, !.d = co.d,
                                       !.computed = TRUE]]

\* the binary search of evaluate / evaluateDerivative: the 0-based interval
\* index, from the bracket (left, right)
RECURSIVE Search(_, _, _, _)
Search(x, xVal, left, right) ==
    IF right - left > 1
    THEN LET mid == (left + right) \div 2
         IN  IF FLt(xVal, x[mid + 1])
             THEN Search(x, xVal, left, mid)
             ELSE Search(x, xVal, mid, right)
    ELSE left

\* the 0-based interval index i that evaluate uses for xVal
Interval(s, xVal) ==
    LET n == Len(s.x)
    IN  IF FLe(xVal, s.x[1]) THEN 0
        ELSE IF FGe(xVal, s.x[n]) THEN n - 2
        ELSE Search(s.x, xVal, 0, n - 1)

\* an evaluate that tests only x.empty(), not the computed flag
evaluateUnguarded(s, xVal) ==
    IF Len(s.x) = 0 THEN 0
    ELSE LET i  == Interval(s, xVal) + 1
             dx == FSub(xVal, s.x[i])
         IN  FAdd(FAdd(FAdd(s.y[i], FMul(s.b[i], dx)),
                       FMul(FMul(s.c[i], dx), dx)),
                  FMul(FMul(FMul(s.d[i], dx), dx), dx))

\* CubicSpline::evaluate(xVal)
evaluate(s, xVal) ==
    IF ~s.computed \/ Len(s.x) = 0 THEN 0
    ELSE LET i  == Interval(s, xVal) + 1
             dx == FSub(xVal, s.x[i])
         IN  FAdd(FAdd(FAdd(s.y[i], FMul(s.b[i], dx)),
                       FMul(FMul(s.c[i], dx), dx)),
                  FMul(FMul(FMul(s.d[i], dx), dx), dx))

\* CubicSpline::evaluateDerivative(xVal)
evaluateDerivative(s, xVal) ==
    IF ~s.computed \/ Len(s.x) = 0 THEN 0
    ELSE LET i  == Interval(s, xVal) + 1
             dx == FSub(xVal, s.x[i])
         IN  FAdd(FAdd(s.b[i], FMul(FMul(Num(2), s.c[i]), dx)),
                  FMul(FMul(FMul(Num(3), s.d[i]), dx), dx))

\* the 1e-8 and 1e-10 of the bisection's convergence test
FTolerance == Lit(1, 100000000)
XTolerance == FDiv(Lit(1, 100000), Num(100000))

\* the root the bisection loop of findCrossings pushes for the bracket
\* (xLeft, xRight), from iteration iter on; fLeft is value - level at xLeft
\* (fRight is assigned by the source and never read)
RECURSIVE Bisect(_, _, _, _, _, _)
Bisect(s, yVal, xLeft, xRight, fLeft, iter) ==
    LET xMid == FDiv(FAdd(xLeft, xRight), Num(2))
        fMid == FSub(evaluate(s, xMid), yVal)
    IN  IF FLt(FAbs(fMid), FTolerance) \/ FLt(FAbs(FSub(xRight, xLeft)), XTolerance)
        THEN xMid
        ELSE LET inLeft == FLt(FMul(fLeft, fMid), 0)
                 nLeft  == IF inLeft THEN xLeft ELSE xMid
                 nRight == IF inLeft THEN xMid ELSE xRight
                 nfLeft == IF inLeft THEN fLeft ELSE fMid
             IN  IF iter = maxBisect - 1
                 THEN FDiv(FAdd(nLeft, nRight), Num(2))
                 ELSE Bisect(s, yVal, nLeft, nRight, nfLeft, iter + 1)

\* the elements of a finite set of integers in ascending order
RECURSIVE Ascending(_)
Ascending(S) ==
    IF S = {} THEN <<>>
    ELSE LET m == CHOOSE u \in S : \A v \in S : u <= v
         IN  <<m>> \o Ascending(S \ {m})

\* x of iteration i of the sampling loop: xMin + i * dx
SampleX(xMin, dx, i) == FAdd(xMin, FMul(Num(i), dx))

\* prevX of iteration i: the sample before it
PrevX(xMin, dx, i) == IF i = 1 THEN xMin ELSE SampleX(xMin, dx, i - 1)

\* evaluate(x) - yVal at the samples 0 .. numSamples (sample i is entry i + 1)
SampleValues(s, yVal, xMin, dx) ==
    SubSeq([k \in 1..(numSamples + 1) |-> FSub(evaluate(s, PrevX(xMin, dx, k)), yVal)],
           1, numSamples + 1)

\* the iterations i whose test prevVal * currVal < 0 holds, in loop order
SignChanges(val) ==
    Ascending({i \in 1..numSamples : FLt(FMul(val[i], val[i + 1]), 0)})

\* the crossings pushed back, one bisection for each sign change
Refine(s, yVal, xMin, dx, val, order) ==
    SubSeq([k \in 1..Len(order) |->
               Bisect(s, yVal, PrevX(xMin, dx, order[k]), SampleX(xMin, dx, order[k]),
                      val[order[k]], 0)],
           1, Len(order))

\* the sampling loop of findCrossings over the values val
ScanCrossings(s, yVal, xMin, dx, val) ==
    Refine(s, yVal, xMin, dx, val, SignChanges(val))

\* the body of findCrossings for a computed spline, with its step dx
SampleCrossings(s, yVal, xMin, dx) ==
    ScanCrossings(s, yVal, xMin, dx, SampleValues(s, yVal, xMin, dx))

\* CubicSpline::findCrossings(yVal, xMin, xMax)
findCrossings(s, yVal, xMin, xMax) ==
    IF ~s.computed \/ Len(s.x) = 0 THEN <<>>
    ELSE SampleCrossings(s, yVal, xMin, FDiv(FSub(xMax, xMin), Num(numSamples)))

---------------------------------------------------------------------------
(* Integration::adaptive and Integration::adaptiveHelper *)

\* no value yet / a returned double
NoValue == [set |-> FALSE, v |-> 0]
Value(v) == [set |-> TRUE, v |-> v]
NoArgs == [a |-> 0, b |-> 0, tolerance |-> 0]

\* what one adaptiveHelper call computes before it decides
Simpson(s, f) ==
    LET mid        == FDiv(FAdd(f.a, f.b), Num(2))
        h          == FSub(f.b, f.a)
        S_whole    == FMul(FDiv(h, Num(6)),
                           FAdd(FAdd(f.fa, FMul(Num(4), f.fmid)), f.fb))
        leftMid    == FDiv(FAdd(f.a, mid), Num(2))
        f_leftMid  == evaluate(s, leftMid)
        S_left     == FMul(FDiv(h, Num(12)),
                           FAdd(FAdd(f.fa, FMul(Num(4), f_leftMid)), f.fmid))
        rightMid   == FDiv(FAdd(mid, f.b), Num(2))
        f_rightMid == evaluate(s, rightMid)
        S_right    == FMul(FDiv(h, Num(12)),
                           FAdd(FAdd(f.fmid, FMul(Num(4), f_rightMid)), f.fb))
        S_split    == FAdd(S_left, S_right)
    IN  [mid |-> mid, f_leftMid |-> f_leftMid, f_rightMid |-> f_rightMid,
         S_whole |-> S_whole, S_split |-> S_split,
         error |-> FDiv(FAbs(FSub(S_split, S_whole)), Num(15))]

\* the activation record of a call adaptiveHelper(spline, a, b, tolerance,
\* fa, fb, fmid): at "entry" before its body ran, at "left" / "right" while
\* its first / second recursive call runs
Frame(a, b, tolerance, fa, fb, fmid) ==
    [a |-> a, b |-> b, tolerance |-> tolerance, fa |-> fa, fb |-> fb,
     fmid |-> fmid, at |-> "entry", left_integral |-> 0]

Top == stack[Len(stack)]
Pop == SubSeq(stack, 1, Len(stack) - 1)
SetTop(f) == [stack EXCEPT ![Len(stack)] = f]

\* the points leftMid and rightMid the body of the call f evaluates the
\* spline at
QuarterPoints(f) ==
    <<FDiv(FAdd(f.a, FDiv(FAdd(f.a, f.b), Num(2))), Num(2)),
      FDiv(FAdd(FDiv(FAdd(f.a, f.b), Num(2)), f.b), Num(2))>>

\* the record of the evaluations after spline.evaluate ran at the points
Evaluated(e, points) == [count |-> e.count + Len(points), last |-> points]

\* whether the call f returns without recursing, and what it returns then
Accepts(s, f) == FLt(Simpson(s, f).error, f.tolerance)
Refined(s, f) ==
    LET q == Simpson(s, f)
    IN  FAdd(q.S_split, FDiv(FSub(q.S_split, q.S_whole), Num(15)))

\* the recursive calls of f on [a, mid] and on [mid, b]
LeftCall(s, f) ==
    LET q == Simpson(s, f)
    IN  Frame(f.a, q.mid, FDiv(f.tolerance, Num(2)), f.fa, f.fmid, q.f_leftMid)
\* a second recursive call that is handed the value at the left quarter point
RightCallWithLeftValue(s, f) ==
    LET q == Simpson(s, f)
    IN  Frame(q.mid, f.b, FDiv(f.tolerance, Num(2)), f.fmid, f.fb, q.f_leftMid)
RightCall(s, f) ==
    LET q == Simpson(s, f)
    IN  Frame(q.mid, f.b, FDiv(f.tolerance, Num(2)), f.fmid, f.fb, q.f_rightMid)

\* the first call of the helper, from Integration::adaptive
FirstCall(s, a, b, tolerance) ==
    Frame(a, b, tolerance, evaluate(s, a), evaluate(s, b),
          evaluate(s, FDiv(FAdd(a, b), Num(2))))

\* Integration::adaptiveHelper as the value it returns (when it returns)
RECURSIVE adaptiveHelper(_, _)
adaptiveHelper(s, f) ==
    IF Accepts(s, f) THEN Refined(s, f)
    ELSE FAdd(adaptiveHelper(s, LeftCall(s, f)), adaptiveHelper(s, RightCall(s, f)))

\* Integration::adaptive as the value it returns
adaptive(s, a, b, tolerance) ==
    IF ~s.computed THEN 0 ELSE adaptiveHelper(s, FirstCall(s, a, b, tolerance))

\* Integration::adaptive(spline, a, b, tolerance), up to its call of the helper
AdaptiveCall ==
    /\ pc = "adaptive"
    /\ IF ~spline.computed
       THEN /\ result' = Value(0)
            /\ pc' = "done"
            /\ stack' = stack
            /\ evals' = evals
       ELSE /\ stack' = <<FirstCall(spline, args.a, args.b, args.tolerance)>>
            /\ pc' = "helper"
            /\ result' = result
            /\ evals' = Evaluated(evals, <<args.a, args.b,
                                           FDiv(FAdd(args.a, args.b), Num(2))>>)
    /\ UNCHANGED <<splineVars, args, retVal, peakVars, query, filtered, nc, rom, main>>

\* adaptiveHelper: the error estimate is below the tolerance, return
HelperAccept ==
    /\ pc = "helper"
    /\ stack # <<>>
    /\ Top.at = "entry"
    /\ Accepts(spline, Top)
    /\ retVal' = Value(Refined(spline, Top))
    /\ stack' = Pop
    /\ evals' = Evaluated(evals, QuarterPoints(Top))
    /\ UNCHANGED <<splineVars, pc, args, result, peakVars, query, filtered, nc, rom, main>>

\* adaptiveHelper: otherwise, the recursive call on [a, mid]
HelperSplit ==
    /\ pc = "helper"
    /\ stack # <<>>
    /\ Top.at = "entry"
    /\ ~Accepts(spline, Top)
    /\ Len(stack) <= DepthCap
    /\ stack' = Append(SetTop([Top EXCEPT !.at = "left"]), LeftCall(spline, Top))
    /\ evals' = Evaluated(evals, QuarterPoints(Top))
    /\ UNCHANGED <<splineVars, pc, args, retVal, result, peakVars, query, filtered, nc,
                   rom, main>>

\* adaptiveHelper: the first recursive call returned, the one on [mid, b]
HelperLeftDone ==
    /\ pc = "helper"
    /\ stack # <<>>
    /\ Top.at = "left"
    /\ retVal.set
    /\ stack' = Append(SetTop([Top EXCEPT !.at = "right",
                                          !.left_integral = retVal.v]),
                       RightCall(spline, Top))
    /\ retVal' = NoValue
    /\ UNCHANGED <<splineVars, pc, args, result, peakVars, unitVars>>

\* adaptiveHelper: the second recursive call returned, return the sum
HelperRightDone ==
    /\ pc = "helper"
    /\ stack # <<>>
    /\ Top.at = "right"
    /\ retVal.set
    /\ retVal' = Value(FAdd(Top.left_integral, retVal.v))
    /\ stack' = Pop
    /\ UNCHANGED <<splineVars, pc, args, result, peakVars, unitVars>>

\* Integration::adaptive returns what the outermost helper call returned
AdaptiveReturn ==
    /\ pc = "helper"
    /\ stack = <<>>
    /\ retVal.set
    /\ result' = retVal
    /\ retVal' = NoValue
    /\ pc' = "done"
    /\ UNCHANGED <<splineVars, args, stack, peakVars, unitVars>>

---------------------------------------------------------------------------
(* Integration::newtonCotes, romberg, gaussLegendre *)

\* the product of the doubles u and v, divided by the integer w > 0 and
\* rounded once: the source's (h / 3.0) * sum and h * sum with its
\* h = (b - a) / n kept exact
FMulDiv(u, v, w) ==
    IF IsFinite(u) /\ IsFinite(v)
    THEN LET q == v \div w
             r == v % w
             t == u * q + ((u * r) \div w)
         IN  (2 * t + Scale) \div (2 * Scale)
    ELSE FMul(u, v)

\* u * v / w for integers u, v and w > 0, rounded to the nearest integer
MulDiv(u, v, w) ==
    IF IsFinite(u) /\ IsFinite(v)
    THEN LET q == v \div w
             r == v % w
         IN  u * q + ((2 * u * r + w) \div (2 * w))
    ELSE FMul(u, v)

\* k * v for a small integer k, exactly
Times(k, v) == IF IsFinite(v) THEN k * v ELSE FMul(Num(k), v)

\* the sample point a + i * h of a rule with n subintervals, h = (b - a) / n
SamplePoint(a, b, n, i) ==
    IF IsFinite(FSub(b, a)) THEN FAdd(a, RDiv(i * FSub(b, a), n))
    ELSE FAdd(a, FMul(Num(i), FSub(b, a)))

\* the sum of spline(a + i * h) for i = lo, lo + step, ... <= hi; the
\* additions of the model are exact, so their order does not matter
RECURSIVE SumSamples(_, _, _, _, _, _, _)
SumSamples(s, a, b, n, lo, hi, step) ==
    IF lo > hi THEN 0
    ELSE IF lo + step > hi
    THEN evaluate(s, SamplePoint(a, b, n, lo))
    ELSE LET count == (hi - lo) \div step + 1
             cut   == lo + step * (count \div 2)
         IN  FAdd(SumSamples(s, a, b, n, lo, cut - step, step),
                  SumSamples(s, a, b, n, cut, hi, step))

\* the composite Simpson estimate newtonCotes computes with n subintervals
SimpsonEstimate(s, a, b, n) ==
    LET sum == FAdd(FAdd(FAdd(evaluate(s, a), evaluate(s, b)),
                         Times(4, SumSamples(s, a, b, n, 1, n - 1, 2))),
                    Times(2, SumSamples(s, a, b, n, 2, n - 1, 2)))
    IN  FMulDiv(FSub(b, a), sum, 3 * n)

\* the loop of newtonCotes from iteration iter on, with n subintervals
RECURSIVE NewtonCotesLoop(_, _, _, _, _, _, _)
NewtonCotesLoop(s, a, b, tolerance, iter, n, prevIntegral) ==
    LET integral == SimpsonEstimate(s, a, b, n)
    IN  IF iter > 0 /\ FLt(FAbs(FSub(integral, prevIntegral)), tolerance)
        THEN integral
        ELSE IF iter + 1 < maxIterations
        THEN NewtonCotesLoop(s, a, b, tolerance, iter + 1, 2 * n, integral)
        ELSE integral

\* Integration::newtonCotes
newtonCotes(s, a, b, tolerance) ==
    IF ~s.computed THEN 0 ELSE NewtonCotesLoop(s, a, b, tolerance, 0, 2, 0)

\* Integration::trapezoid: h * (0.5 * (f(a) + f(b)) + sum of the inner samples)
trapezoid(s, a, b, n) ==
    LET twice == FAdd(FAdd(evaluate(s, a), evaluate(s, b)),
                      Times(2, SumSamples(s, a, b, n, 1, n - 1, 1)))
    IN  FMulDiv(FSub(b, a), twice, 2 * n)

\* row i of the Romberg table (R[i][0..i] is RombergRow(..)[1..i+1]), from
\* row i-1; (factor * R[i][j-1] - R[i-1][j-1]) / (factor - 1.0) with the
\* integer factor 4^j, written as R[i][j-1] + (R[i][j-1] - R[i-1][j-1]) /
\* (factor - 1.0), which is the same number
RECURSIVE RombergEntries(_, _, _, _)
RombergEntries(prevRow, first, i, j) ==
    IF j = 0 THEN <<first>>
    ELSE LET row == RombergEntries(prevRow, first, i, j - 1)
         IN  Append(row, FAdd(row[j], MulDiv(1, FSub(row[j], prevRow[j]), (4 ^ j) - 1)))

RombergRow(s, a, b, prevRow, i) ==
    RombergEntries(prevRow, trapezoid(s, a, b, 2 ^ i), i, i)

\* the loop of romberg from level i on
RECURSIVE RombergLoop(_, _, _, _, _, _)
RombergLoop(s, a, b, tolerance, i, prevRow) ==
    LET row == RombergRow(s, a, b, prevRow, i)
    IN  IF i > 0 /\ FLt(FAbs(FSub(row[i + 1], prevRow[i])), tolerance)
        THEN row[i + 1]
        ELSE IF i + 1 < maxLevel
        THEN RombergLoop(s, a, b, tolerance, i + 1, row)
        ELSE row[i + 1]

\* Integration::romberg
romberg(s, a, b, tolerance) ==
    IF ~s.computed THEN 0 ELSE RombergLoop(s, a, b, tolerance, 0, <<>>)

\* the 32 positive abscissas and weights of the 64-point Gauss-Legendre
\* rule, in millionths
nodes ==
    << 24350, 72993, 121463, 169644, 217424, 264687, 311323, 357220,
       402270, 446366, 489403, 531279, 571896, 611155, 648965, 685236,
       719882, 752820, 783972, 813265, 840629, 865999, 889315, 910522,
       929569, 946411, 961009, 973327, 983336, 991013, 996340, 999305 >>
weights ==
    << 48691, 48575, 48345, 47999, 47540, 46968, 46285, 45492,
       44591, 43584, 42474, 41263, 39954, 38550, 37055, 35472,
       33805, 32058, 30235, 28340, 26377, 24353, 22270, 20135,
       17952, 15726, 13463, 11168, 8847, 6504, 4147, 1783 >>

\* weights[i] * (spline.evaluate(x_pos) + spline.evaluate(x_neg)) for the
\* node i (1-based), in thousandths of a unit
GaussTerm(s, a, b, i, offset) ==
    MulDiv(weights[i],
           FAdd(evaluate(s, FAdd(FDiv(FAdd(a, b), Num(2)), offset)),
                evaluate(s, FSub(FDiv(FAdd(a, b), Num(2)), offset))),
           1000)

\* the terms of the nodes lo..hi added up; the loop adds them in order, and
\* the sum of these integers does not depend on the order
RECURSIVE GaussSum(_, _, _, _, _)
GaussSum(s, a, b, lo, hi) ==
    IF lo = hi
    THEN GaussTerm(s, a, b, lo, MulDiv(FSub(b, a), (nodes[lo] + 5) \div 10, 200000))
    ELSE FAdd(GaussSum(s, a, b, lo, (lo + hi) \div 2),
              GaussSum(s, a, b, ((lo + hi) \div 2) + 1, hi))

\* Integration::gaussLegendre(spline, a, b)
gaussLegendre(s, a, b) ==
    IF ~s.computed THEN 0
    ELSE FMulDiv(FSub(b, a), GaussSum(s, a, b, 1, Len(nodes)), 2000)

---------------------------------------------------------------------------
(* PeakDetector::detectPeaks *)

\* *min_element / *max_element of a non-empty vector
MinElement(v) == CHOOSE u \in {v[i] : i \in 1..Len(v)} : \A j \in 1..Len(v) : u <= v[j]
MaxElement(v) == CHOOSE u \in {v[i] : i \in 1..Len(v)} : \A j \in 1..Len(v) : u >= v[j]

\* crossings.insert(crossings.begin(), v)
InsertFront(q, v) == <<v>> \o q

\* std::sort(first, last): ascending
RECURSIVE InsertSorted(_, _)
InsertSorted(q, v) ==
    IF q = <<>> THEN <<v>>
    ELSE IF FLe(v, Head(q)) THEN <<v>> \o q
    ELSE <<Head(q)>> \o InsertSorted(Tail(q), v)

RECURSIVE Sort(_)
Sort(q) == IF q = <<>> THEN <<>> ELSE InsertSorted(Sort(Tail(q)), Head(q))

\* if (yAtMin > baseline && !crossings.empty()) insert xMin at the front
EdgeLeft(s, crossings, xMin, baseline) ==
    IF FGt(evaluate(s, xMin), baseline) /\ crossings # <<>>
    THEN InsertFront(crossings, xMin) ELSE crossings

\* if (yAtMax > baseline && !crossings.empty()) push_back xMax
EdgeRight(s, crossings, xMax, baseline) ==
    IF FGt(evaluate(s, xMax), baseline) /\ crossings # <<>>
    THEN Append(crossings, xMax) ELSE crossings

\* the crossing list of detectPeaks when it reaches the size test: what
\* findCrossings found between xMin and xMax, then the two edge tests
EdgesOf(s, xMin, xMax, baseline) ==
    EdgeRight(s, EdgeLeft(s, findCrossings(s, baseline, xMin, xMax), xMin, baseline),
              xMax, baseline)

EdgeCrossings(s, xData, baseline) ==
    EdgesOf(s, MinElement(xData), MaxElement(xData), baseline)

\* a scan that compares every sample with the baseline instead of the
\* running maximum: it keeps the last sample above the baseline
RECURSIVE ScanSamplesAboveBaseline(_, _, _, _, _, _)
ScanSamplesAboveBaseline(xData, yData, xBegin, xEnd, j, acc) ==
    IF j > Len(xData) THEN acc
    ELSE ScanSamplesAboveBaseline(xData, yData, xBegin, xEnd, j + 1,
            IF /\ FGe(xData[j], xBegin)
               /\ FLe(xData[j], xEnd)
               /\ (acc.foundDataPoint \/ FGt(yData[j], acc.maxY))
            THEN [maxY |-> yData[j], maxX |-> xData[j], foundDataPoint |-> TRUE]
            ELSE acc)

\* the scan of the samples j, j+1, ... for the maximum in [xBegin, xEnd]:
\* maxY, maxX and foundDataPoint after it
RECURSIVE ScanSamples(_, _, _, _, _, _)
ScanSamples(xData, yData, xBegin, xEnd, j, acc) ==
    IF j > Len(xData) THEN acc
    ELSE ScanSamples(xData, yData, xBegin, xEnd, j + 1,
            IF /\ FGe(xData[j], xBegin)
               /\ FLe(xData[j], xEnd)
               /\ FGt(yData[j], acc.maxY)
            THEN [maxY |-> yData[j], maxX |-> xData[j], foundDataPoint |-> TRUE]
            ELSE acc)

\* a skip test without fabs: it skips every location below 0.02
AtOriginSigned(location) == FLt(location, Lit(2, 100))

\* whether detectPeaks skips a peak at this location ("skip peak at 0 fix")
AtOrigin(location) == FLt(FAbs(location), Lit(2, 100))

\* a Peak whose location is where the largest sample is, not the midpoint
NewPeakAtMaximum(xBegin, xEnd, scan) ==
    [begin |-> xBegin, end |-> xEnd,
     location |-> scan.maxX,
     maximum |-> scan.maxY, area |-> 0, hydrogens |-> 0]

\* the Peak the grouping loop builds from a pair and the scan of its samples
NewPeak(xBegin, xEnd, scan) ==
    [begin |-> xBegin, end |-> xEnd,
     location |-> FDiv(FAdd(xBegin, xEnd), Num(2)),
     maximum |-> scan.maxY, area |-> 0, hydrogens |-> 0]

\* a loop body without the midpoint test: only the data verification and
\* the skip near 0 decide
FateWithoutMidpoint(yMid, baseline, scan, peak) ==
    IF ~scan.foundDataPoint THEN "nodata"
    ELSE IF AtOrigin(peak.location) THEN "origin"
    ELSE "peak"

\* how one iteration of the grouping loop ends: "valley" (the midpoint is
\* not above the baseline), "nodata" (no data point found), "origin"
\* (skipped near 0) or "peak" (pushed)
Fate(yMid, baseline, scan, peak) ==
    IF FLe(yMid, baseline) THEN "valley"
    ELSE IF ~scan.foundDataPoint THEN "nodata"
    ELSE IF AtOrigin(peak.location) THEN "origin"
    ELSE "peak"

\* an iteration with its midpoint xMid and the scan of the samples done
Scanned(s, baseline, xBegin, xEnd, xMid, scan) ==
    [fate |-> Fate(evaluate(s, xMid), baseline, scan, NewPeak(xBegin, xEnd, scan)),
     peak |-> NewPeak(xBegin, xEnd, scan)]

\* an iteration of the grouping loop with its midpoint xMid
PairAt(s, xData, yData, baseline, xBegin, xEnd, xMid) ==
    Scanned(s, baseline, xBegin, xEnd, xMid,
            ScanSamples(xData, yData, xBegin, xEnd, 1,
                        [maxY |-> baseline, maxX |-> xMid, foundDataPoint |-> FALSE]))

\* one iteration of the grouping loop of detectPeaks, for the crossing pair
\* (xBegin, xEnd)
Pair(s, xData, yData, baseline, xBegin, xEnd) ==
    PairAt(s, xData, yData, baseline, xBegin, xEnd, FDiv(FAdd(xBegin, xEnd), Num(2)))

\* peaks.push_back(peak) over the iterations of the grouping loop, in order
RECURSIVE Pushed(_)
Pushed(pairs) ==
    IF pairs = <<>> THEN <<>>
    ELSE IF Head(pairs).fate = "peak" THEN <<Head(pairs).peak>> \o Pushed(Tail(pairs))
    ELSE Pushed(Tail(pairs))

\* a grouping loop that pairs every crossing after the first with the first
PairsFromFirst(s, xData, yData, baseline, crossings) ==
    SubSeq([i \in 1..(Len(crossings) - 1) |->
               Pair(s, xData, yData, baseline, crossings[1], crossings[i + 1])],
           1, Len(crossings) - 1)

\* the iterations of the grouping loop over the sorted crossings
Pairs(s, xData, yData, baseline, crossings) ==
    SubSeq([i \in 1..(Len(crossings) - 1) |->
               Pair(s, xData, yData, baseline, crossings[i], crossings[i + 1])],
           1, Len(crossings) - 1)

\* what detectPeaks returns after the grouping loop
Grouped(crossings, pairs) ==
    [peaks |-> Pushed(pairs),
     crossings |-> crossings,
     fate |-> [i \in 1..Len(pairs) |-> pairs[i].fate]]

\* detectPeaks from the sort on
SortAndGroup(s, xData, yData, baseline, crossings) ==
    Grouped(crossings, Pairs(s, xData, yData, baseline, crossings))

\* detectPeaks from the size test on, with the crossing list edge
FromCrossings(s, xData, yData, baseline, edge) ==
    IF Len(edge) < 2
    THEN [peaks |-> <<>>, crossings |-> edge, fate |-> <<>>]
    ELSE SortAndGroup(s, xData, yData, baseline, Sort(edge))

\* PeakDetector::detectPeaks(spline, xData, yData, baseline): the returned
\* peaks, with the crossing list at its return and how each pair ended
detectPeaks(s, xData, yData, baseline) ==
    IF ~s.computed \/ Len(xData) = 0 \/ Len(yData) = 0 \/ Len(xData) # Len(yData)
    THEN [peaks |-> <<>>, crossings |-> <<>>, fate |-> <<>>]
    ELSE FromCrossings(s, xData, yData, baseline, EdgeCrossings(s, xData, baseline))

---------------------------------------------------------------------------
(* PeakDetector::integratePeaks and PeakDetector::calculateHydrogens *)

\* a switch whose default label runs into the Gauss-Legendre case
AreaFallsThrough(s, peak, integrationType, tolerance) ==
    CASE integrationType = 0 -> newtonCotes(s, peak.begin, peak.end, tolerance)
      [] integrationType = 1 -> romberg(s, peak.begin, peak.end, tolerance)
      [] integrationType = 2 -> adaptive(s, peak.begin, peak.end, tolerance)
      [] OTHER               -> gaussLegendre(s, peak.begin, peak.end)

\* the switch of integratePeaks: the area it assigns to a peak
Area(s, peak, integrationType, tolerance) ==
    CASE integrationType = 0 -> newtonCotes(s, peak.begin, peak.end, tolerance)
      [] integrationType = 1 -> romberg(s, peak.begin, peak.end, tolerance)
      [] integrationType = 2 -> adaptive(s, peak.begin, peak.end, tolerance)
      [] integrationType = 3 -> gaussLegendre(s, peak.begin, peak.end)
      [] OTHER               -> 0

\* PeakDetector::integratePeaks(peaks, spline, integrationType, tolerance)
integratePeaks(pk, s, integrationType, tolerance) ==
    [i \in 1..Len(pk) |->
        [pk[i] EXCEPT !.area = Area(s, pk[i], integrationType, tolerance)]]

\* the minimum search of calculateHydrogens over peaks i, i+1, ...
RECURSIVE MinAreaFrom(_, _, _)
MinAreaFrom(pk, i, least) ==
    IF i > Len(pk) THEN least
    ELSE MinAreaFrom(pk, i + 1,
            IF FGt(pk[i].area, 0) /\ FLt(pk[i].area, least) THEN pk[i].area ELSE least)

\* minArea without the search: the first area
MinAreaOfFirst(pk) == pk[1].area

\* minArea of calculateHydrogens for a non-empty peak list
MinArea(pk) == MinAreaFrom(pk, 1, pk[1].area)

\* the pipeline's values before the step that sets them
NoInput == [xData |-> <<>>, yData |-> <<>>, baseline |-> 0]
NoneFound == [crossings |-> <<>>, fate |-> <<>>]
NoIntegration == [integrationType |-> 0, tolerance |-> 0]

\* the state of the units no call has been made on
NoQuery == [op |-> "none", ret |-> <<>>]
NoFilter == [family |-> "none", data |-> <<>>, filterSize |-> 0, numPasses |-> 0,
             result |-> <<>>, reads |-> {}]
NoLoop == [at |-> "idle", tolerance |-> 0, iter |-> 0, n |-> 0, used |-> 0,
           prevIntegral |-> 0, integral |-> 0, ret |-> NoValue]
NoTable == [at |-> "idle", integrand |-> "flat", tolerance |-> 0, i |-> 0,
            R |-> <<>>, unwritten |-> FALSE, ret |-> NoValue]
\* no evaluation made: their number, and the points of the last call's
NoEvals == [count |-> 0, last |-> <<>>]
\* the Config object as its constructor leaves it (the fields main's control
\* flow reads), and no file written
NoMain == [config |-> [baselineAdjustment |-> 0, filterType |-> 0, filterSize |-> 0,
                       filterPasses |-> 0, integrationType |-> 0],
           configured |-> FALSE, files |-> {}, exit |-> <<>>]

\* round(q) of <cmath> for a finite q: the nearest integer, halves away from zero
Round(q) == Sign(q) * ((2 * Abs(q) + Scale) \div (2 * Scale))

IntMax == 2^30 + (2^30 - 1)
IntMin == -IntMax - 1
\* what static_cast<int> of a NaN or an infinity can give (undefined behaviour)
UndefinedInts == {IntMin, 0, IntMax}

\* the values static_cast<int>(round(area / divisor)) can take
Hydrogens(area, divisor) ==
    LET q == FDiv(area, divisor)
    IN  IF IsFinite(q) THEN {Round(q)} ELSE UndefinedInts

---------------------------------------------------------------------------
(* SplineSpec: one CubicSpline object, fitted again and again *)

RECURSIVE SeqsUpTo(_, _)
SeqsUpTo(S, n) ==
    IF n = 0 THEN {<<>>}
    ELSE LET shorter == SeqsUpTo(S, n - 1)
         IN  shorter \cup {Append(q, v) : q \in {r \in shorter : Len(r) = n - 1}, v \in S}

\* the knot abscissas and ordinates offered to compute
XVals == {0, Num(1), Num(2)}
YVals == {0, Num(3)}
XInputs == SeqsUpTo(XVals, MaxKnots)
YInputs == SeqsUpTo(YVals, MaxKnots)

NoCall == [xData |-> <<>>, yData |-> <<>>, ret |-> TRUE, pre |-> NewSpline]

SplineInit ==
    /\ spline = NewSpline
    /\ pc = "spline"
    /\ call = NoCall
    /\ calls = 0
    /\ args = NoArgs
    /\ stack = <<>>
    /\ retVal = NoValue
    /\ result = NoValue
    /\ input = NoInput
    /\ found = NoneFound
    /\ peaks = <<>>
    /\ integ = NoIntegration
    /\ minArea = NoValue
    /\ query = NoQuery
    /\ filtered = NoFilter
    /\ nc = NoLoop
    /\ rom = NoTable
    /\ evals = NoEvals
    /\ main = NoMain

\* a call spline.compute(xData, yData)
Compute ==
    /\ pc = "spline"
    /\ calls < MaxCalls
    /\ \E xData \in XInputs, yData \in YInputs :
          LET r == compute(spline, xData, yData)
          IN  /\ spline' = r.obj
              /\ call' = [xData |-> xData, yData |-> yData, ret |-> r.ret,
                          pre |-> spline]
    /\ calls' = calls + 1
    /\ pc' = pc
    /\ UNCHANGED <<adaptiveVars, peakVars, unitVars>>

SplineNext == Compute

SplineSpec == SplineInit /\ [][SplineNext]_vars

\* whether x is not strictly increasing
NotStrictlyIncreasing(x) == \E i \in 1..(Len(x) - 1) : ~FLt(x[i], x[i + 1])

\* C1: whenever compute returns false, the spline object (knots x and y,
\* coefficients b, c, d, the computed flag) is what it was before the call,
\* so it evaluates as before at every point.
C1_FailedComputeLeavesSplineUnchanged ==
    (calls > 0 /\ ~call.ret) =>
        /\ spline = call.pre
        /\ \A xVal \in XVals : evaluate(spline, xVal) = evaluate(call.pre, xVal)

\* C2: compute returns false and does not set the computed flag whenever the
\* x values (n >= 2 of them, as many as y values) are not strictly
\* increasing, the two-point case included.
C2_NonIncreasingRejected ==
    (/\ calls > 0
     /\ Len(call.xData) = Len(call.yData)
     /\ Len(call.xData) >= 2
     /\ NotStrictlyIncreasing(call.xData)) =>
        (~call.ret /\ spline.computed = call.pre.computed)

---------------------------------------------------------------------------
(* AdaptiveSpec: Integration::adaptive on a spline, an interval and a tolerance *)

\* the fitted spline of a data set
Fitted(data) == compute(NewSpline, data.x, data.y).obj

\* data sets (x strictly increasing) the integrated splines are fitted to
AdaptiveData ==
    { [x |-> <<Num(-5), 0, Num(5)>>,            y |-> <<0, Num(10), 0>>],
      [x |-> <<Num(-5), Num(-2), Num(1), Num(5)>>, y |-> <<Num(1), Num(4), Num(-2), Num(3)>>],
      [x |-> <<0, Num(4)>>,                      y |-> <<Num(1), Num(3)>>] }

AdaptiveSplines == {Fitted(data) : data \in AdaptiveData} \cup {NewSpline}

AdaptiveIntervals ==
    { <<Num(-5), Num(5)>>, <<Num(-2), Num(1)>>, <<0, Num(4)>>, <<Num(1), Num(1)>>,
      <<Num(3), Num(-1)>> }

AdaptiveTolerances == {Num(-1), 0, Lit(1, 100), Lit(1, 10), Num(1)}

AdaptiveInit ==
    /\ spline \in AdaptiveSplines
    /\ pc = "adaptive"
    /\ call = NoCall
    /\ calls = 0
    /\ \E ab \in AdaptiveIntervals, tolerance \in AdaptiveTolerances :
          args = [a |-> ab[1], b |-> ab[2], tolerance |-> tolerance]
    /\ stack = <<>>
    /\ retVal = NoValue
    /\ result = NoValue
    /\ input = NoInput
    /\ found = NoneFound
    /\ peaks = <<>>
    /\ integ = NoIntegration
    /\ minArea = NoValue
    /\ query = NoQuery
    /\ filtered = NoFilter
    /\ nc = NoLoop
    /\ rom = NoTable
    /\ evals = NoEvals
    /\ main = NoMain

AdaptiveNext ==
    \/ AdaptiveCall
    \/ HelperAccept
    \/ HelperSplit
    \/ HelperLeftDone
    \/ HelperRightDone
    \/ AdaptiveReturn

AdaptiveSpec == AdaptiveInit /\ [][AdaptiveNext]_vars

\* C3: Integration::adaptive terminates for every tolerance: the recursion
\* of adaptiveHelper never nests deeper than a fixed maximum (DepthCap calls
\* inside the outermost one).
C3_RecursionDepthBounded == Len(stack) <= DepthCap

\* with a positive tolerance the recursion stays below the cap on these inputs
PositiveToleranceShallow == (args.tolerance > 0) => Len(stack) <= DepthCap

\* the call with frame f holds the spline's values at a, b and (a + b) / 2
HoldsValues(f) ==
    /\ f.fa = evaluate(spline, f.a)
    /\ f.fb = evaluate(spline, f.b)
    /\ f.fmid = evaluate(spline, FDiv(FAdd(f.a, f.b), Num(2)))

\* the call with frame f was made by the call with frame g: on the half of
\* g's interval that g is waiting for, with half of g's tolerance
CalledBy(f, g) ==
    /\ f.tolerance = FDiv(g.tolerance, Num(2))
    /\ g.at \in {"left", "right"}
    /\ g.at = "left" => f.a = g.a /\ f.b = FDiv(FAdd(g.a, g.b), Num(2))
    /\ g.at = "right" => f.a = FDiv(FAdd(g.a, g.b), Num(2)) /\ f.b = g.b

\* C26: in every call of adaptiveHelper reached from Integration::adaptive,
\* fa, fb and fmid equal the spline's values at a, b and (a + b) / 2; each
\* call evaluates the spline at exactly two new points, the two quarter
\* points; and each of the two recursive calls receives half of the
\* caller's tolerance (the quarter points differ from a, b and the midpoint
\* once the interval is wider than the resolution of the numbers)
C26_HelperReusesValues ==
    /\ [](\A k \in 1..Len(stack) : HoldsValues(stack[k]))
    /\ [](\A k \in 2..Len(stack) : CalledBy(stack[k], stack[k - 1]))
    /\ [](Len(stack) >= 1 => stack[1].tolerance = args.tolerance)
    /\ [][(pc = "helper" /\ stack # <<>> /\ Top.at = "entry") =>
            /\ evals'.count = evals.count + 2
            /\ evals'.last = QuarterPoints(Top)
            /\ Abs(Top.b - Top.a) >= 4 =>
                  Cardinality({Top.a, Top.b, FDiv(FAdd(Top.a, Top.b), Num(2)),
                               evals'.last[1], evals'.last[2]}) = 5]_vars

\* a second recursive call has been made, after the body of its caller and
\* the whole first recursive call have run
C26_Witness ==
    /\ pc = "helper"
    /\ Len(stack) >= 2
    /\ stack[Len(stack) - 1].at = "right"
    /\ Top.at = "entry"
    /\ Top.tolerance > 0
    /\ evals.count >= 7

---------------------------------------------------------------------------
(* PeakSpec: fit, detectPeaks, integratePeaks, calculateHydrogens, as main *)
(* calls them on the filtered samples                                      *)

\* the sample abscissas: five knots on the sampling grid of findCrossings,
\* four knots off it, and one sequence that is not strictly increasing
Grid5 == <<Num(-5), Lit(-25, 10), 0, Lit(25, 10), Num(5)>>
Grid4 == <<Num(-5), Lit(-1705, 1000), Lit(1605, 1000), Num(5)>>
GridBad == <<Num(-5), 0, 0, Num(5)>>

\* the ordinates of the samples
Levels == {Num(-3), Num(-1), Num(4)}

RECURSIVE SeqsOfLen(_, _)
SeqsOfLen(S, n) ==
    IF n = 0 THEN {<<>>}
    ELSE {Append(q, v) : q \in SeqsOfLen(S, n - 1), v \in S}

\* every signal on Grid4 and the two-level signals on Grid5 against a baseline
\* of -2, a hump whose two inner samples sit on the baseline, and samples
\* that compute rejects
PeakInputs ==
    {[xData |-> Grid4, yData |-> y, baseline |-> Num(-2)] : y \in SeqsOfLen(Levels, 4)}
    \cup
    {[xData |-> Grid5, yData |-> y, baseline |-> Num(-2)] :
        y \in SeqsOfLen({Num(-3), Num(4)}, 5)}
    \cup
    {[xData |-> Grid4, yData |-> <<Num(-3), Num(-1), Num(-1), Num(-3)>>,
      baseline |-> Num(-1)],
     [xData |-> GridBad, yData |-> <<0, Num(4), Num(4), 0>>, baseline |-> Num(-2)]}

IntegrationTypes == {-1, 0, 1, 2, 3, 4}
Tolerances == {Lit(1, 100)}

PeakInit ==
    /\ spline = NewSpline
    /\ pc = "fit"
    /\ call = NoCall
    /\ calls = 0
    /\ args = NoArgs
    /\ stack = <<>>
    /\ retVal = NoValue
    /\ result = NoValue
    /\ input \in PeakInputs
    /\ found = NoneFound
    /\ peaks = <<>>
    /\ integ = NoIntegration
    /\ minArea = NoValue
    /\ query = NoQuery
    /\ filtered = NoFilter
    /\ nc = NoLoop
    /\ rom = NoTable
    /\ evals = NoEvals
    /\ main = NoMain

\* a main that goes on to detectPeaks whatever compute returned
ContinuesAnyway(ret) == "detect"

\* where main goes after spline.compute returned ret
AfterCompute(ret) == IF ret THEN "detect" ELSE "failed"

\* main: spline.compute(data.xData, filteredY); a failure ends the run with
\* exit code 1, a success is followed by the write of spline_fit.txt
Fit ==
    /\ pc = "fit"
    /\ \E r \in {compute(spline, input.xData, input.yData)} :
          /\ spline' = r.obj
          /\ call' = [xData |-> input.xData, yData |-> input.yData,
                      ret |-> r.ret, pre |-> spline]
          /\ pc' = AfterCompute(r.ret)
          /\ main' = IF r.ret
                     THEN [main EXCEPT !.files = @ \cup {"spline_fit.txt"}]
                     ELSE [main EXCEPT !.exit = <<1>>]
    /\ calls' = calls + 1
    /\ UNCHANGED <<adaptiveVars, peakVars, query, filtered, nc, rom, evals>>

\* main: peaks = PeakDetector::detectPeaks(spline, xData, filteredY, baseline)
DetectPeaks ==
    /\ pc = "detect"
    /\ \E r \in {detectPeaks(spline, input.xData, input.yData, input.baseline)} :
          /\ peaks' = r.peaks
          /\ found' = [crossings |-> r.crossings, fate |-> r.fate]
    /\ pc' = "integrate"
    /\ UNCHANGED <<splineVars, adaptiveVars, input, integ, minArea, unitVars>>

\* main: PeakDetector::integratePeaks(peaks, spline, integrationType, tolerance)
IntegratePeaks ==
    /\ pc = "integrate"
    /\ \E integrationType \in IntegrationTypes, tolerance \in Tolerances :
          /\ peaks' = integratePeaks(peaks, spline, integrationType, tolerance)
          /\ integ' = [integrationType |-> integrationType, tolerance |-> tolerance]
    /\ pc' = "hydrogens"
    /\ UNCHANGED <<splineVars, adaptiveVars, input, found, minArea, unitVars>>

\* main: PeakDetector::calculateHydrogens(peaks)
CalculateHydrogens ==
    /\ pc = "hydrogens"
    /\ IF peaks = <<>>
       THEN UNCHANGED <<peaks, minArea>>
       ELSE /\ minArea' = Value(MinArea(peaks))
            /\ \E h \in [1..Len(peaks) -> UNION {Hydrogens(peaks[i].area, MinArea(peaks)) :
                                                   i \in 1..Len(peaks)}] :
                  /\ \A i \in 1..Len(peaks) : h[i] \in Hydrogens(peaks[i].area, MinArea(peaks))
                  /\ peaks' = [i \in 1..Len(peaks) |-> [peaks[i] EXCEPT !.hydrogens = h[i]]]
    /\ pc' = "done"
    /\ UNCHANGED <<splineVars, adaptiveVars, input, found, integ, unitVars>>

PeakNext ==
    \/ Fit
    \/ DetectPeaks
    \/ IntegratePeaks
    \/ CalculateHydrogens

PeakSpec == PeakInit /\ [][PeakNext]_vars

---------------------------------------------------------------------------
(* Properties of PeakSpec *)

\* detectPeaks has returned
Detected == pc \in {"integrate", "hydrogens", "done"}

\* the samples j with begin <= xData[j] <= end
SamplesIn(begin, end) ==
    {j \in 1..Len(input.xData) : FGe(input.xData[j], begin) /\ FLe(input.xData[j], end)}

\* the least area among the peaks with area > 0
LeastPositiveArea(pk) ==
    CHOOSE m \in {pk[i].area : i \in 1..Len(pk)} :
        /\ FGt(m, 0)
        /\ \A i \in 1..Len(pk) : FGt(pk[i].area, 0) => m <= pk[i].area

\* C4: for a non-empty peak list whose areas are all <= 0, calculateHydrogens
\* does not divide by a zero or non-positive minArea, and no area / minArea
\* it turns into a hydrogens value is NaN or an infinity
C4_NoPositiveAreaGuarded ==
    (/\ pc = "done"
     /\ peaks # <<>>
     /\ \A i \in 1..Len(peaks) : FLe(peaks[i].area, 0)) =>
        \/ ~minArea.set
        \/ /\ FGt(minArea.v, 0)
           /\ \A i \in 1..Len(peaks) : IsFinite(FDiv(peaks[i].area, minArea.v))

\* C5: for a non-empty peak list with at least one area > 0,
\* calculateHydrogens sets every hydrogens to round(area / m), m being the
\* least area among the peaks with area > 0, wherever those peaks are
C5_HydrogensFromLeastPositiveArea ==
    (/\ pc = "done"
     /\ \E i \in 1..Len(peaks) : FGt(peaks[i].area, 0)) =>
        \A i \in 1..Len(peaks) :
            peaks[i].hydrogens = Round(FDiv(peaks[i].area, LeastPositiveArea(peaks)))

\* C6: when the spline at min(xData) is above the baseline, xMin is the
\* first crossing of detectPeaks, and when the spline at max(xData) is above
\* the baseline, xMax is the last one, whatever findCrossings returned
C6_EdgeCrossingsAdded ==
    Detected =>
        /\ FGt(evaluate(spline, MinElement(input.xData)), input.baseline) =>
              /\ found.crossings # <<>>
              /\ Head(found.crossings) = MinElement(input.xData)
        /\ FGt(evaluate(spline, MaxElement(input.xData)), input.baseline) =>
              /\ found.crossings # <<>>
              /\ found.crossings[Len(found.crossings)] = MaxElement(input.xData)

\* C7: a consecutive crossing pair whose midpoint is above the baseline is
\* discarded at the data verification exactly when no sample lies in
\* [begin, end]
C7_DiscardedOnlyWithoutSamples ==
    Detected =>
        \A i \in 1..Len(found.fate) :
            found.fate[i] # "valley" =>
                ((found.fate[i] = "nodata") <=>
                    (SamplesIn(found.crossings[i], found.crossings[i + 1]) = {}))

\* C8: every returned peak has samples in [begin, end], and its maximum is
\* the largest yData[j] among them
C8_MaximumIsLargestSample ==
    Detected =>
        \A k \in 1..Len(peaks) :
            /\ \E j \in SamplesIn(peaks[k].begin, peaks[k].end) :
                  input.yData[j] = peaks[k].maximum
            /\ \A j \in SamplesIn(peaks[k].begin, peaks[k].end) :
                  input.yData[j] <= peaks[k].maximum

\* a returned peak that holds two samples of different height
C8_Witness ==
    /\ Detected
    /\ \E k \in 1..Len(peaks) :
          \E i, j \in SamplesIn(peaks[k].begin, peaks[k].end) :
              input.yData[i] < input.yData[j]

\* the midpoint (begin + end) / 2 of the crossing pair i
PairMid(i) == FDiv(FAdd(found.crossings[i], found.crossings[i + 1]), Num(2))

\* the crossing pair i passes the midpoint check and the data verification
PassesChecks(i) ==
    /\ FGt(evaluate(spline, PairMid(i)), input.baseline)
    /\ \E j \in SamplesIn(found.crossings[i], found.crossings[i + 1]) :
          FGt(input.yData[j], input.baseline)

\* C9: no returned peak has |location| < 0.02, and every crossing pair that
\* passes the midpoint check and the data verification and has
\* |(begin + end) / 2| >= 0.02 is returned as a peak
C9_OnlyOriginSuppressed ==
    Detected =>
        /\ \A k \in 1..Len(peaks) : FGe(FAbs(peaks[k].location), Lit(2, 100))
        /\ \A i \in 1..(Len(found.crossings) - 1) :
              (PassesChecks(i) /\ FGe(FAbs(PairMid(i)), Lit(2, 100))) =>
                  \E k \in 1..Len(peaks) :
                      /\ peaks[k].begin = found.crossings[i]
                      /\ peaks[k].end = found.crossings[i + 1]

\* a pair at the origin is suppressed while pairs left and right of it are
\* returned
C9_Witness ==
    /\ Detected
    /\ \E i \in 1..(Len(found.crossings) - 1) :
          PassesChecks(i) /\ FLt(FAbs(PairMid(i)), Lit(2, 100))
    /\ \E k \in 1..Len(peaks) : peaks[k].location < 0
    /\ \E k \in 1..Len(peaks) : peaks[k].location > 0

\* C10: the returned peaks are ordered by ascending begin and do not
\* overlap: begin <= end in each, and p.end <= q.begin for consecutive p, q
C10_PeaksOrderedDisjoint ==
    Detected =>
        /\ \A k \in 1..Len(peaks) : peaks[k].begin <= peaks[k].end
        /\ \A k \in 1..(Len(peaks) - 1) :
              /\ peaks[k].end <= peaks[k + 1].begin
              /\ peaks[k].begin <= peaks[k + 1].begin

\* several peaks are returned, the first from the synthetic crossing xMin
\* and the last to the synthetic crossing xMax
C10_Witness ==
    /\ Detected
    /\ Len(peaks) >= 2
    /\ peaks[1].begin = MinElement(input.xData)
    /\ peaks[Len(peaks)].end = MaxElement(input.xData)

\* C11: every peak detectPeaks returns has location = (begin + end) / 2,
\* area = 0 and hydrogens = 0; the area stays 0 until integratePeaks runs
\* and hydrogens stays 0 until calculateHydrogens runs
C11_PeakFieldsAtDetection ==
    /\ pc = "integrate" =>
          \A k \in 1..Len(peaks) :
              /\ peaks[k].location = FDiv(FAdd(peaks[k].begin, peaks[k].end), Num(2))
              /\ peaks[k].area = 0
              /\ peaks[k].hydrogens = 0
    /\ pc = "hydrogens" => \A k \in 1..Len(peaks) : peaks[k].hydrogens = 0

\* detectPeaks has returned a peak whose largest sample is off its midpoint,
\* and nothing has integrated it yet
C11_Witness ==
    /\ pc = "integrate"
    /\ \E k \in 1..Len(peaks) :
          \E j \in SamplesIn(peaks[k].begin, peaks[k].end) :
              /\ input.yData[j] = peaks[k].maximum
              /\ input.xData[j] # peaks[k].location
              /\ peaks[k].area = 0

\* C12: every returned peak is bounded by two consecutive elements of the
\* sorted crossing list and the spline at (begin + end) / 2 is above the
\* baseline; a consecutive pair whose midpoint value is <= baseline never
\* produces a peak
C12_PeaksFromPairsAboveBaseline ==
    Detected =>
        /\ peaks # <<>> =>
              \A i \in 1..(Len(found.crossings) - 1) :
                  found.crossings[i] <= found.crossings[i + 1]
        /\ \A k \in 1..Len(peaks) :
              \E i \in 1..(Len(found.crossings) - 1) :
                  /\ peaks[k].begin = found.crossings[i]
                  /\ peaks[k].end = found.crossings[i + 1]
                  /\ FGt(evaluate(spline, PairMid(i)), input.baseline)
        /\ \A i \in 1..(Len(found.crossings) - 1) :
              FLe(evaluate(spline, PairMid(i)), input.baseline) =>
                  ~\E k \in 1..Len(peaks) :
                      /\ peaks[k].begin = found.crossings[i]
                      /\ peaks[k].end = found.crossings[i + 1]

\* peaks are returned left and right of a pair whose midpoint is not above
\* the baseline although a sample above the baseline lies in the pair
C12_Witness ==
    /\ Detected
    /\ peaks # <<>>
    /\ \E i \in 1..(Len(found.crossings) - 1) :
          /\ FLe(evaluate(spline, PairMid(i)), input.baseline)
          /\ \E j \in SamplesIn(found.crossings[i], found.crossings[i + 1]) :
                FGt(input.yData[j], input.baseline)

\* C14: for every integrationType outside 0..3, integratePeaks leaves every
\* peak with area = 0; and for every integrationType it changes no field
\* other than area: the number and order of the peaks and each peak's begin,
\* end, location, maximum and hydrogens are as before the call
C14_OnlyAreaIntegrated ==
    [][pc = "integrate" =>
          /\ Len(peaks') = Len(peaks)
          /\ \A i \in 1..Len(peaks) :
                /\ peaks'[i].begin = peaks[i].begin
                /\ peaks'[i].end = peaks[i].end
                /\ peaks'[i].location = peaks[i].location
                /\ peaks'[i].maximum = peaks[i].maximum
                /\ peaks'[i].hydrogens = peaks[i].hydrogens
                /\ integ'.integrationType \notin 0..3 => peaks'[i].area = 0]_vars

\* integratePeaks has run with an unknown integrationType on several peaks
C14_Witness ==
    /\ pc = "hydrogens"
    /\ Len(peaks) >= 2
    /\ integ.integrationType \notin 0..3
    /\ \A i \in 1..Len(peaks) : peaks[i].area = 0

---------------------------------------------------------------------------
(* HydrogenSpec: one call of PeakDetector::calculateHydrogens on a peak    *)
(* list whose areas integratePeaks has set                                 *)

\* the areas of the peaks handed over
Areas == {Num(-1), 0, Num(1), Lit(3, 2), Num(2), Num(3)}

\* the k-th peak of a list, with the given area
PeakWithArea(k, area) ==
    [begin |-> Num(2 * k), end |-> Num(2 * k + 1),
     location |-> FDiv(FAdd(Num(2 * k), Num(2 * k + 1)), Num(2)),
     maximum |-> Num(4), area |-> area, hydrogens |-> 0]

\* the peak lists of up to n peaks
PeakLists(n) ==
    {[k \in 1..Len(q) |-> PeakWithArea(k, q[k])] : q \in SeqsUpTo(Areas, n)}

HydrogenInit ==
    /\ spline = NewSpline
    /\ pc = "hydrogens"
    /\ call = NoCall
    /\ calls = 0
    /\ args = NoArgs
    /\ stack = <<>>
    /\ retVal = NoValue
    /\ result = NoValue
    /\ input = NoInput
    /\ found = NoneFound
    /\ peaks \in PeakLists(MaxPeaks)
    /\ integ = NoIntegration
    /\ minArea = NoValue
    /\ query = NoQuery
    /\ filtered = NoFilter
    /\ nc = NoLoop
    /\ rom = NoTable
    /\ evals = NoEvals
    /\ main = NoMain

HydrogenNext == CalculateHydrogens

HydrogenSpec == HydrogenInit /\ [][HydrogenNext]_vars

\* every peak of the list has area > 0
AllPositive(pk) == \A i \in 1..Len(pk) : FGt(pk[i].area, 0)

\* C23: when every peak has area > 0, after calculateHydrogens every peak
\* has hydrogens >= 1 and each peak of least area has hydrogens == 1; a list
\* of exactly one peak gets hydrogens 1, and two peaks with areas A and 2A
\* get hydrogens 1 and 2 in either list order
C23_PositiveAreasGiveHydrogens ==
    (pc = "done" /\ peaks # <<>> /\ AllPositive(peaks)) =>
        /\ \A i \in 1..Len(peaks) : peaks[i].hydrogens >= 1
        /\ \A i \in 1..Len(peaks) :
              (\A k \in 1..Len(peaks) : FLe(peaks[i].area, peaks[k].area))
                  => peaks[i].hydrogens = 1
        /\ Len(peaks) = 1 => peaks[1].hydrogens = 1
        /\ \A i, k \in 1..Len(peaks) :
              (Len(peaks) = 2 /\ i # k /\ peaks[k].area = 2 * peaks[i].area)
                  => peaks[i].hydrogens = 1 /\ peaks[k].hydrogens = 2

\* the hydrogens of a list of areas 2A and A, the larger first, were set
C23_Witness ==
    /\ pc = "done"
    /\ Len(peaks) = 2
    /\ FGt(peaks[2].area, 0)
    /\ peaks[1].area = 2 * peaks[2].area
    /\ peaks[1].hydrogens = 2
    /\ peaks[2].hydrogens = 1
    /\ minArea = Value(peaks[2].area)

---------------------------------------------------------------------------
(* QuerySpec: one CubicSpline object that is fitted, refitted and queried *)
(* through every function that reads it                                   *)

\* the samples handed to compute: two, three and four knots that it
\* accepts, three knots out of order and a size mismatch that it rejects
QueryData ==
    {[x |-> <<0, Num(2)>>, y |-> <<Num(3), 0>>],
     [x |-> <<0, Num(1), Num(2)>>, y |-> <<0, Num(3), 0>>],
     [x |-> <<0, Num(1), Num(2), Num(4)>>, y |-> <<Num(3), 0, Num(3), Num(3)>>],
     [x |-> <<0, Num(2), Num(1)>>, y |-> <<Num(3), Num(3), 0>>],
     [x |-> <<0, Num(1)>>, y |-> <<Num(3)>>]}

\* the arguments of the queries
QueryPoints == {Num(-1), 0, Lit(1, 2), Num(1), Num(3)}
QueryLevels == {Num(1), Num(2)}
QueryIntervals == {<<Lit(1, 4), Lit(3, 4)>>, <<Lit(1, 2), Lit(3, 4)>>}
\* a computed spline is integrated to the tolerance of PeakSpec, an
\* uncomputed one also to tolerances that no loop meets
QueryTolerances(s) == IF s.computed THEN Tolerances ELSE Tolerances \cup {0, Num(-1)}
QuerySamples ==
    {[xData |-> <<0, Num(1), Num(2)>>, yData |-> <<0, Num(3), 0>>, baseline |-> Num(1)],
     [xData |-> <<0, Num(2)>>, yData |-> <<Num(3), Num(3)>>, baseline |-> Num(2)]}

QueryInit ==
    /\ spline = NewSpline
    /\ pc = "fresh"
    /\ call = NoCall
    /\ calls = 0
    /\ args = NoArgs
    /\ stack = <<>>
    /\ retVal = NoValue
    /\ result = NoValue
    /\ input = NoInput
    /\ found = NoneFound
    /\ peaks = <<>>
    /\ integ = NoIntegration
    /\ minArea = NoValue
    /\ query = NoQuery
    /\ filtered = NoFilter
    /\ nc = NoLoop
    /\ rom = NoTable
    /\ evals = NoEvals
    /\ main = NoMain

\* what a query leaves as it is: everything but its own record
queryFrame == <<spline, pc, call, calls, adaptiveVars, peakVars, filtered, nc, rom, evals,
               main>>

\* spline.compute(xData, yData); pc is "fresh" until a call succeeds
QueryCompute ==
    /\ calls < MaxCalls
    /\ \E data \in QueryData :
          \E r \in {compute(spline, data.x, data.y)} :
              /\ spline' = r.obj
              /\ call' = [xData |-> data.x, yData |-> data.y, ret |-> r.ret,
                          pre |-> spline]
              /\ pc' = IF r.ret THEN "fitted" ELSE pc
    /\ calls' = calls + 1
    /\ UNCHANGED <<adaptiveVars, peakVars, unitVars>>

\* the queries; a behaviour makes one, after any number of compute calls,
\* since a second one would start from the same spline

\* spline.evaluate(xVal)
QueryEvaluate ==
    /\ query = NoQuery
    /\ \E xVal \in QueryPoints :
          query' = [op |-> "evaluate", ret |-> <<evaluate(spline, xVal)>>]
    /\ UNCHANGED queryFrame

\* spline.evaluateDerivative(xVal)
QueryEvaluateDerivative ==
    /\ query = NoQuery
    /\ \E xVal \in QueryPoints :
          query' = [op |-> "evaluateDerivative",
                    ret |-> <<evaluateDerivative(spline, xVal)>>]
    /\ UNCHANGED queryFrame

\* spline.findCrossings(yVal, xMin, xMax)
QueryFindCrossings ==
    /\ query = NoQuery
    /\ \E yVal \in QueryLevels :
          query' = [op |-> "findCrossings",
                    ret |-> findCrossings(spline, yVal, 0, Num(2))]
    /\ UNCHANGED queryFrame

\* PeakDetector::detectPeaks(spline, xData, yData, baseline)
QueryDetectPeaks ==
    /\ query = NoQuery
    /\ \E data \in QuerySamples :
          \E r \in {detectPeaks(spline, data.xData, data.yData, data.baseline)} :
              query' = [op |-> "detectPeaks", ret |-> r.peaks]
    /\ UNCHANGED queryFrame

\* Integration::newtonCotes(spline, a, b, tolerance)
QueryNewtonCotes ==
    /\ query = NoQuery
    /\ \E ab \in QueryIntervals, tolerance \in QueryTolerances(spline) :
          query' = [op |-> "newtonCotes",
                    ret |-> <<newtonCotes(spline, ab[1], ab[2], tolerance)>>]
    /\ UNCHANGED queryFrame

\* Integration::romberg(spline, a, b, tolerance)
QueryRomberg ==
    /\ query = NoQuery
    /\ \E ab \in QueryIntervals, tolerance \in QueryTolerances(spline) :
          query' = [op |-> "romberg",
                    ret |-> <<romberg(spline, ab[1], ab[2], tolerance)>>]
    /\ UNCHANGED queryFrame

\* Integration::adaptive(spline, a, b, tolerance)
QueryAdaptive ==
    /\ query = NoQuery
    /\ \E ab \in QueryIntervals, tolerance \in QueryTolerances(spline) :
          query' = [op |-> "adaptive",
                    ret |-> <<adaptive(spline, ab[1], ab[2], tolerance)>>]
    /\ UNCHANGED queryFrame

\* Integration::gaussLegendre(spline, a, b)
QueryGaussLegendre ==
    /\ query = NoQuery
    /\ \E ab \in QueryIntervals :
          query' = [op |-> "gaussLegendre",
                    ret |-> <<gaussLegendre(spline, ab[1], ab[2])>>]
    /\ UNCHANGED queryFrame

QueryNext ==
    \/ QueryCompute
    \/ QueryEvaluate
    \/ QueryEvaluateDerivative
    \/ QueryFindCrossings
    \/ QueryDetectPeaks
    \/ QueryNewtonCotes
    \/ QueryRomberg
    \/ QueryAdaptive
    \/ QueryGaussLegendre

QuerySpec == QueryInit /\ [][QueryNext]_vars

---------------------------------------------------------------------------
(* Properties of QuerySpec *)

\* what a query returns on a spline that was never computed
Sentinel(op) == IF op \in {"findCrossings", "detectPeaks"} THEN <<>> ELSE <<0>>

\* C13: on a CubicSpline for which no compute call has succeeded, every
\* query returns its sentinel: evaluate and evaluateDerivative 0,
\* findCrossings and detectPeaks nothing, newtonCotes, romberg, adaptive and
\* gaussLegendre 0 for every interval and tolerance; and a step that is not
\* a compute call leaves the spline as it is
C13_UncomputedQueriesReturnSentinel ==
    /\ [](pc = "fresh" /\ query.op # "none" => query.ret = Sentinel(query.op))
    /\ [][calls' = calls => spline' = spline]_vars

\* a query made on a spline that holds the samples of a compute call that
\* failed
C13_Witness ==
    /\ pc = "fresh"
    /\ calls > 0
    /\ spline.x # <<>>
    /\ query.op = "evaluate"

\* 2*c[n-2] + 6*d[n-2]*(x[n-1] - x[n-2]): the second derivative of the last
\* polynomial of the spline s at the last knot
SecondDerivativeAtEnd(s) ==
    FAdd(Times(2, s.c[Len(s.x) - 1]),
         FMul(Times(6, s.d[Len(s.x) - 1]), FSub(s.x[Len(s.x)], s.x[Len(s.x) - 1])))

\* what the rounding of c and d to the unit of the fixed-point numbers can
\* contribute to SecondDerivativeAtEnd
EndRounding(s) == ((3 * Abs(s.x[Len(s.x)] - s.x[Len(s.x) - 1])) \div Scale) + 2

\* C18: after a successful compute the second derivative of the interpolant
\* is 0 at the first and at the last knot: c[0] = 0 and 2*c[n-2] +
\* 6*d[n-2]*(x[n-1] - x[n-2]) = 0 (to within the rounding of c and d), for
\* every n >= 2
C18_NaturalBoundary ==
    (calls > 0 /\ call.ret) =>
        /\ spline.c[1] = 0
        /\ IsFinite(SecondDerivativeAtEnd(spline))
        /\ Abs(SecondDerivativeAtEnd(spline)) <= EndRounding(spline)

\* a spline on four knots that bends at its last inner knot
C18_Witness ==
    /\ calls > 0
    /\ call.ret
    /\ Len(spline.x) >= 4
    /\ Abs(spline.c[Len(spline.x) - 1]) > Num(1)
    /\ Abs(spline.d[Len(spline.x) - 1]) > 0

---------------------------------------------------------------------------
(* NewtonCotesSpec: the loop of Integration::newtonCotes, one iteration a *)
(* step. The composite sum of an iteration costs n evaluations, up to     *)
(* 2^20 of them, so the model does not compute it: the estimate of an     *)
(* iteration is any of Estimates, and the loop is run on every sequence   *)
(* of them                                                                *)

\* the values of integral = (h / 3.0) * sum: equal, close and distant
\* estimates, and one that is not a number
Estimates == {0, Num(1), Lit(1005, 1000), Num(2), NaN}
LoopTolerances == {Num(-1), 0, Lit(1, 100)}

\* a convergence test that also runs in the first iteration
ConvergedAtFirst(iter, integral, prevIntegral, tolerance) ==
    FLt(FAbs(FSub(integral, prevIntegral)), tolerance)

\* if (iter > 0 && abs(integral - prevIntegral) < tolerance)
Converged(iter, integral, prevIntegral, tolerance) ==
    iter > 0 /\ FLt(FAbs(FSub(integral, prevIntegral)), tolerance)

NewtonCotesInit ==
    /\ spline \in {NewSpline, Fitted([x |-> <<0, Num(2)>>, y |-> <<Num(3), 0>>])}
    /\ pc = "newtonCotes"
    /\ call = NoCall
    /\ calls = 0
    /\ args = NoArgs
    /\ stack = <<>>
    /\ retVal = NoValue
    /\ result = NoValue
    /\ input = NoInput
    /\ found = NoneFound
    /\ peaks = <<>>
    /\ integ = NoIntegration
    /\ minArea = NoValue
    /\ query = NoQuery
    /\ filtered = NoFilter
    /\ \E tolerance \in LoopTolerances :
          nc = [NoLoop EXCEPT !.at = "call", !.tolerance = tolerance]
    /\ rom = NoTable
    /\ evals = NoEvals
    /\ main = NoMain

\* what the steps of newtonCotes leave as they are
loopFrame == <<spline, pc, call, calls, adaptiveVars, peakVars, query, filtered, rom,
               evals, main>>

\* the test of isComputed and the initialisation of n, prevIntegral, integral
NewtonCotesEnter ==
    /\ nc.at = "call"
    /\ nc' = IF ~spline.computed
             THEN [nc EXCEPT !.at = "returned", !.ret = Value(0)]
             ELSE [nc EXCEPT !.at = "loop", !.n = 2, !.iter = 0,
                             !.prevIntegral = 0, !.integral = 0]
    /\ UNCHANGED loopFrame

\* one iteration of the for loop: the estimate on n subintervals, then the
\* return of the convergence test or prevIntegral = integral and n *= 2
NewtonCotesIterate ==
    /\ nc.at = "loop"
    /\ nc.iter < maxIterations
    /\ \E integral \in Estimates :
          nc' = IF Converged(nc.iter, integral, nc.prevIntegral, nc.tolerance)
                THEN [nc EXCEPT !.integral = integral, !.used = nc.n,
                                !.at = "returned", !.ret = Value(integral)]
                ELSE [nc EXCEPT !.integral = integral, !.used = nc.n,
                                !.prevIntegral = integral, !.n = 2 * nc.n,
                                !.iter = nc.iter + 1]
    /\ UNCHANGED loopFrame

\* the loop ran maxIterations times: return integral
NewtonCotesExit ==
    /\ nc.at = "loop"
    /\ nc.iter >= maxIterations
    /\ nc' = [nc EXCEPT !.at = "returned", !.ret = Value(nc.integral)]
    /\ UNCHANGED loopFrame

NewtonCotesNext ==
    \/ NewtonCotesEnter
    \/ NewtonCotesIterate
    \/ NewtonCotesExit

NewtonCotesSpec == NewtonCotesInit /\ [][NewtonCotesNext]_vars

\* the call is not suspended: a step that can be taken is taken
NewtonCotesLive == NewtonCotesSpec /\ WF_vars(NewtonCotesNext)

\* C15: on a computed spline newtonCotes makes its estimates I_1, I_2, ...
\* with 2, 4, 8, ... subintervals, at least 2 and at most 20 of them; it
\* returns I_k for the least k >= 2 with |I_k - I_(k-1)| < tolerance, and
\* I_20 when there is no such k (so for every tolerance <= 0); and every
\* call returns
C15_NewtonCotesReturnsFirstConverged ==
    /\ [](spline.computed /\ nc.at = "returned" =>
            /\ nc.ret = Value(nc.integral)
            /\ \E k \in 2..maxIterations :
                  /\ nc.used = 2 ^ k
                  /\ k < maxIterations =>
                        FLt(FAbs(FSub(nc.integral, nc.prevIntegral)), nc.tolerance)
            /\ nc.tolerance <= 0 => nc.used = 2 ^ maxIterations)
    /\ [][nc'.used # nc.used =>
            /\ nc'.used = IF nc.used = 0 THEN 2 ELSE 2 * nc.used
            /\ IF /\ nc.used # 0
                  /\ FLt(FAbs(FSub(nc'.integral, nc.integral)), nc.tolerance)
               THEN nc'.at = "returned" /\ nc'.ret = Value(nc'.integral)
               ELSE nc'.at = "loop"]_vars
    /\ <>(nc.at = "returned")

\* a call that returned the estimate on 2^20 subintervals because no two
\* successive estimates were closer than a positive tolerance
C15_Witness ==
    /\ spline.computed
    /\ nc.at = "returned"
    /\ nc.tolerance > 0
    /\ nc.used = 2 ^ maxIterations
    /\ nc.ret = Value(nc.integral)

---------------------------------------------------------------------------
(* RombergSpec: the loop of Integration::romberg over its table R, one    *)
(* level a step. The trapezoid sums cost up to 2^14 evaluations, so the   *)
(* model does not compute them: an integrand is given by the trapezoid    *)
(* estimate it has on n subintervals                                      *)

\* the integrands: a constant estimate, estimates that approach 1 as the
\* trapezoid rule does, estimates that never settle, and not a number
Integrands == {"flat", "quartering", "alternating", "nan"}

\* trapezoid(spline, a, b, n) for the integrand
TrapezoidOf(integrand, n) ==
    CASE integrand = "flat"        -> Num(1)
      [] integrand = "quartering"  -> FAdd(Num(1), RDiv(Scale, n * n))
      [] integrand = "alternating" -> IF \E k \in 0..maxLevel : n = 4 ^ k
                                      THEN Num(1) ELSE Num(2)
      [] OTHER                     -> NaN

\* double R[maxLevel][maxLevel]: no entry is written yet
NewTable == [i \in 0..(maxLevel - 1) |-> [j \in 0..(maxLevel - 1) |-> NoValue]]

\* what a read of an entry that was never written may give
Indeterminate == {0, Num(7)}

\* the value read from R[ij[1]][ij[2]]
Entry(R, ij, garbage) ==
    IF R[ij[1]][ij[2]].set THEN R[ij[1]][ij[2]].v ELSE garbage

\* a second operand taken from the same column of the row above
AboveSameColumn(i, j) == <<i - 1, j>>

\* the entries R[i][j] is extrapolated from: R[i][j-1] and R[i-1][j-1]
Left(i, j) == <<i, j - 1>>
Above(i, j) == <<i - 1, j - 1>>

\* (factor * R[i][j-1] - R[i-1][j-1]) / (factor - 1.0) with factor = 4^j,
\* computed as cur + (cur - prev) / (factor - 1)
Extrapolate(cur, prev, j) == FAdd(cur, MulDiv(1, FSub(cur, prev), (4 ^ j) - 1))

\* the table with the entry ij written, and whether some read so far took
\* an entry that was never written
Written(t, ij, v, reads) ==
    [R |-> [t.R EXCEPT ![ij[1]][ij[2]] = Value(v)],
     unwritten |-> t.unwritten \/ \E r \in reads : ~t.R[r[1]][r[2]].set]

\* the inner loop of romberg from column j on
RECURSIVE FillRow(_, _, _, _)
FillRow(t, i, j, garbage) ==
    IF j > i THEN t
    ELSE FillRow(Written(t, <<i, j>>,
                         Extrapolate(Entry(t.R, Left(i, j), garbage),
                                     Entry(t.R, Above(i, j), garbage), j),
                         {Left(i, j), Above(i, j)}),
                 i, j + 1, garbage)

\* the table after level i of the outer loop, before the convergence test
Level(t, integrand, i, garbage) ==
    FillRow(Written(t, <<i, 0>>, TrapezoidOf(integrand, 2 ^ i), {}), i, 1, garbage)

\* if (i > 0 && abs(R[i][i] - R[i-1][i-1]) < tolerance)
DiagonalSettled(R, i, tolerance) ==
    i > 0 /\ FLt(FAbs(FSub(R[i][i].v, R[i - 1][i - 1].v)), tolerance)

RombergInit ==
    /\ spline \in {NewSpline, Fitted([x |-> <<0, Num(2)>>, y |-> <<Num(3), 0>>])}
    /\ pc = "romberg"
    /\ call = NoCall
    /\ calls = 0
    /\ args = NoArgs
    /\ stack = <<>>
    /\ retVal = NoValue
    /\ result = NoValue
    /\ input = NoInput
    /\ found = NoneFound
    /\ peaks = <<>>
    /\ integ = NoIntegration
    /\ minArea = NoValue
    /\ query = NoQuery
    /\ filtered = NoFilter
    /\ nc = NoLoop
    /\ \E integrand \in Integrands, tolerance \in LoopTolerances :
          rom = [NoTable EXCEPT !.at = "call", !.integrand = integrand,
                                !.tolerance = tolerance]
    /\ evals = NoEvals
    /\ main = NoMain

\* what the steps of romberg leave as they are
tableFrame == <<spline, pc, call, calls, adaptiveVars, peakVars, query, filtered, nc,
                evals, main>>

\* the test of isComputed and the declaration of R
RombergEnter ==
    /\ rom.at = "call"
    /\ rom' = IF ~spline.computed
              THEN [rom EXCEPT !.at = "returned", !.ret = Value(0)]
              ELSE [rom EXCEPT !.at = "loop", !.i = 0, !.R = NewTable]
    /\ UNCHANGED tableFrame

\* one iteration of the outer loop: row i of the table, then the return of
\* the convergence test or i++
RombergLevel ==
    /\ rom.at = "loop"
    /\ rom.i < maxLevel
    /\ \E garbage \in Indeterminate :
          \E t \in {Level([R |-> rom.R, unwritten |-> rom.unwritten],
                          rom.integrand, rom.i, garbage)} :
              rom' = IF DiagonalSettled(t.R, rom.i, rom.tolerance)
                     THEN [rom EXCEPT !.R = t.R, !.unwritten = t.unwritten,
                                      !.at = "returned",
                                      !.ret = Value(Entry(t.R, <<rom.i, rom.i>>, garbage))]
                     ELSE [rom EXCEPT !.R = t.R, !.unwritten = t.unwritten,
                                      !.i = rom.i + 1]
    /\ UNCHANGED tableFrame

\* the loop ran maxLevel times: return R[maxLevel-1][maxLevel-1]
RombergExit ==
    /\ rom.at = "loop"
    /\ rom.i >= maxLevel
    /\ \E garbage \in Indeterminate :
          rom' = [rom EXCEPT !.at = "returned",
                             !.ret = Value(Entry(rom.R, <<maxLevel - 1, maxLevel - 1>>,
                                                 garbage)),
                             !.unwritten = rom.unwritten
                                           \/ ~rom.R[maxLevel - 1][maxLevel - 1].set]
    /\ UNCHANGED tableFrame

RombergNext ==
    \/ RombergEnter
    \/ RombergLevel
    \/ RombergExit

RombergSpec == RombergInit /\ [][RombergNext]_vars

\* R[i][j] is (4^j * R[i][j-1] - R[i-1][j-1]) / (4^j - 1), rounded to the
\* unit of the fixed-point numbers
Extrapolated(R, i, j) ==
    IF IsFinite(R[i][j - 1].v) /\ IsFinite(R[i - 1][j - 1].v)
    THEN /\ IsFinite(R[i][j].v)
         /\ 2 * Abs(((4 ^ j) - 1) * (R[i][j].v - R[i][j - 1].v)
                    - (R[i][j - 1].v - R[i - 1][j - 1].v)) <= (4 ^ j) - 1
    ELSE ~IsFinite(R[i][j].v)

\* the diagonal entries i and i-1 differ by less than the tolerance
Settled(R, i, tolerance) == FLt(FAbs(FSub(R[i][i].v, R[i - 1][i - 1].v)), tolerance)

\* C16: romberg fills a triangular table with R[i][0] the trapezoid
\* estimate on 2^i subintervals and R[i][j] = (4^j * R[i][j-1] -
\* R[i-1][j-1]) / (4^j - 1) for 1 <= j <= i; it returns R[i][i] for the
\* least i in 1..14 with |R[i][i] - R[i-1][i-1]| < tolerance and R[14][14]
\* when there is none; every entry it reads was written earlier in the call
C16_RombergTable ==
    (spline.computed /\ rom.at \in {"loop", "returned"}) =>
        /\ ~rom.unwritten
        /\ \A i, j \in 0..(maxLevel - 1) :
              rom.R[i][j].set =>
                  /\ j <= i
                  /\ j = 0 => rom.R[i][j].v = TrapezoidOf(rom.integrand, 2 ^ i)
                  /\ j > 0 => Extrapolated(rom.R, i, j)
        /\ rom.at = "returned" =>
              \E i \in 1..(maxLevel - 1) :
                  /\ rom.R[i][i].set
                  /\ rom.ret = rom.R[i][i]
                  /\ i < maxLevel - 1 => Settled(rom.R, i, rom.tolerance)
                  /\ \A k \in 1..(i - 1) : ~Settled(rom.R, k, rom.tolerance)
                  /\ \A k \in (i + 1)..(maxLevel - 1) : ~rom.R[k][0].set

\* a call that returned a diagonal entry of the third or a later level, the
\* table filled down to that level
C16_Witness ==
    /\ spline.computed
    /\ rom.at = "returned"
    /\ \E i \in 2..(maxLevel - 2) :
          /\ rom.ret = rom.R[i][i]
          /\ rom.R[i][i].v # rom.R[i][0].v
          /\ ~rom.R[i + 1][0].set

---------------------------------------------------------------------------
(* Filter *)

\* the index idx that boxcarPass and sgPass read for position i and offset
\* j of a sequence of n elements (all 0-based)
Mirrored(idx) == IF idx < 0 THEN -idx ELSE idx
MirroredAtEnd(idx, n) == IF idx >= n THEN 2 * n - idx - 2 ELSE idx
Bounded(idx, n) == IF idx < 0 THEN 0 ELSE IF idx >= n THEN n - 1 ELSE idx
ReadIndex(i, j, n) == Bounded(MirroredAtEnd(Mirrored(i + j), n), n)

\* the reads of one pass over n elements with the given halfWidth
PassReads(n, halfWidth) ==
    {[i |-> i, j |-> j, idx |-> ReadIndex(i, j, n)] :
        i \in 0..(n - 1), j \in (-halfWidth)..halfWidth}

\* the inner loop of boxcarPass for position i, from offset j on
RECURSIVE BoxcarSum(_, _, _, _)
BoxcarSum(data, i, j, halfWidth) ==
    IF j > halfWidth THEN 0
    ELSE FAdd(data[ReadIndex(i, j, Len(data)) + 1], BoxcarSum(data, i, j + 1, halfWidth))

\* boxcarPass with a window that reaches one element further on each side
boxcarPassWide(data, filterSize) ==
    IF filterSize <= 0 \/ data = <<>> THEN data
    ELSE SubSeq([k \in 1..Len(data) |->
                    MulDiv(1, BoxcarSum(data, k - 1, -((filterSize + 1) \div 2),
                                        (filterSize + 1) \div 2),
                           filterSize)],
                1, Len(data))

\* Filter::boxcarPass(data, filterSize)
boxcarPass(data, filterSize) ==
    IF filterSize <= 0 \/ data = <<>> THEN data
    ELSE SubSeq([k \in 1..Len(data) |->
                    MulDiv(1, BoxcarSum(data, k - 1, -((filterSize - 1) \div 2),
                                        (filterSize - 1) \div 2),
                           filterSize)],
                1, Len(data))

\* the loop of applyBoxcar from the pass numbered pass on
RECURSIVE BoxcarPasses(_, _, _, _)
BoxcarPasses(res, filterSize, pass, numPasses) ==
    IF pass < numPasses
    THEN BoxcarPasses(boxcarPass(res, filterSize), filterSize, pass + 1, numPasses)
    ELSE res

\* Filter::applyBoxcar(data, filterSize, numPasses)
applyBoxcar(data, filterSize, numPasses) == BoxcarPasses(data, filterSize, 0, numPasses)

\* a fallback to the nearest kernel size instead of 5
SgSizeNearest(filterSize) ==
    IF filterSize \in {5, 11, 17} THEN filterSize
    ELSE IF filterSize < 6 THEN 5 ELSE IF filterSize < 12 THEN 11 ELSE 17

\* the filterSize sgPass works with
SgSize(filterSize) == IF filterSize \notin {5, 11, 17} THEN 5 ELSE filterSize

\* coeffs and norm of sgPass
SgCoeffs(filterSize) ==
    CASE filterSize = 5  -> <<-3, 12, 17, 12, -3>>
      [] filterSize = 11 -> <<-36, 9, 44, 69, 84, 89, 84, 69, 44, 9, -36>>
      [] OTHER           -> <<-21, -6, 7, 18, 27, 34, 39, 42, 43,
                              42, 39, 34, 27, 18, 7, -6, -21>>
\* one norm for every kernel
SgNormOfFive(filterSize) == 35

SgNorm(filterSize) ==
    CASE filterSize = 5 -> 35 [] filterSize = 11 -> 429 [] OTHER -> 323

\* the inner loop of sgPass for position i, from offset j on
RECURSIVE SgSum(_, _, _, _, _)
SgSum(data, coeffs, i, j, halfWidth) ==
    IF j > halfWidth THEN 0
    ELSE FAdd(Times(coeffs[j + halfWidth + 1], data[ReadIndex(i, j, Len(data)) + 1]),
              SgSum(data, coeffs, i, j + 1, halfWidth))

\* sgPass once filterSize is one of 5, 11, 17
SgConvolve(data, filterSize) ==
    SubSeq([k \in 1..Len(data) |->
               MulDiv(1, SgSum(data, SgCoeffs(filterSize), k - 1,
                               -((filterSize - 1) \div 2), (filterSize - 1) \div 2),
                      SgNorm(filterSize))],
           1, Len(data))

\* Filter::sgPass(data, filterSize)
sgPass(data, filterSize) ==
    IF data = <<>> THEN data ELSE SgConvolve(data, SgSize(filterSize))

\* the loop of applySavitzkyGolay from the pass numbered pass on
RECURSIVE SgPasses(_, _, _, _)
SgPasses(res, filterSize, pass, numPasses) ==
    IF pass < numPasses
    THEN SgPasses(sgPass(res, filterSize), filterSize, pass + 1, numPasses)
    ELSE res

\* Filter::applySavitzkyGolay(data, filterSize, numPasses)
applySavitzkyGolay(data, filterSize, numPasses) ==
    SgPasses(data, filterSize, 0, numPasses)

---------------------------------------------------------------------------
(* FilterSpec: one call of applyBoxcar or applySavitzkyGolay *)

FilterData == SeqsUpTo({0, Num(3)}, MaxData)
FilterSizes == {-1, 0, 1, 2, 3, 5, 7, 11, 17}
FilterFamilies == {"boxcar", "sg"}

FilterInit ==
    /\ spline = NewSpline
    /\ pc = "filter"
    /\ call = NoCall
    /\ calls = 0
    /\ args = NoArgs
    /\ stack = <<>>
    /\ retVal = NoValue
    /\ result = NoValue
    /\ input = NoInput
    /\ found = NoneFound
    /\ peaks = <<>>
    /\ integ = NoIntegration
    /\ minArea = NoValue
    /\ query = NoQuery
    /\ \E family \in FilterFamilies, data \in FilterData,
          filterSize \in FilterSizes, numPasses \in 0..MaxPasses :
          filtered = [NoFilter EXCEPT !.family = family, !.data = data,
                                      !.filterSize = filterSize,
                                      !.numPasses = numPasses]
    /\ nc = NoLoop
    /\ rom = NoTable
    /\ evals = NoEvals
    /\ main = NoMain

\* what a filter call leaves as it is
filterFrame == <<splineVars, adaptiveVars, peakVars, query, nc, rom, evals, main>>

\* filteredY = Filter::applyBoxcar(data, filterSize, numPasses), with the
\* reads its passes make
ApplyBoxcar ==
    /\ pc = "filter"
    /\ filtered.family = "boxcar"
    /\ filtered' =
          [filtered EXCEPT
              !.result = applyBoxcar(filtered.data, filtered.filterSize,
                                     filtered.numPasses),
              !.reads = IF filtered.numPasses > 0 /\ filtered.filterSize > 0
                        THEN PassReads(Len(filtered.data),
                                       (filtered.filterSize - 1) \div 2)
                        ELSE {}]
    /\ pc' = "filtered"
    /\ UNCHANGED filterFrame

\* filteredY = Filter::applySavitzkyGolay(data, filterSize, numPasses), with
\* the reads its passes make
ApplySavitzkyGolay ==
    /\ pc = "filter"
    /\ filtered.family = "sg"
    /\ filtered' =
          [filtered EXCEPT
              !.result = applySavitzkyGolay(filtered.data, filtered.filterSize,
                                            filtered.numPasses),
              !.reads = IF filtered.numPasses > 0
                        THEN PassReads(Len(filtered.data),
                                       (SgSize(filtered.filterSize) - 1) \div 2)
                        ELSE {}]
    /\ pc' = "filtered"
    /\ UNCHANGED filterFrame

FilterNext ==
    \/ ApplyBoxcar
    \/ ApplySavitzkyGolay

FilterSpec == FilterInit /\ [][FilterNext]_vars

\* C19: for both filter families a filterSize <= 0 is a no-op, the output
\* equals the input for every input sequence and every number of passes;
\* and an empty input returns an empty output for every filterSize
C19_NonPositiveSizeIsNoOp ==
    pc = "filtered" =>
        /\ filtered.filterSize <= 0 => filtered.result = filtered.data
        /\ filtered.data = <<>> => filtered.result = <<>>

\* the index the reflection rule names for position i and offset j: i+j in
\* range, -(i+j) below 0, 2n-(i+j)-2 from n on, and a result still outside
\* 0..n-1 moved to the nearer end
IndexAsStated(i, j, n) ==
    Bounded(IF i + j < 0 THEN -(i + j)
            ELSE IF i + j >= n THEN 2 * n - (i + j) - 2
            ELSE i + j, n)

\* C20: in boxcarPass and sgPass, for every length n >= 1, position i and
\* offset j in -halfWidth..halfWidth (also when halfWidth >= n), the index
\* read lies in 0..n-1 and is i+j in range, -(i+j) if i+j < 0,
\* 2n-(i+j)-2 if i+j >= n, a result still outside 0..n-1 clamped to 0 or
\* n-1; and every pass returns a sequence of length n
C20_ReadsReflectedAsStated ==
    pc = "filtered" =>
        /\ Len(filtered.result) = Len(filtered.data)
        /\ \A r \in filtered.reads :
              /\ r.idx \in 0..(Len(filtered.data) - 1)
              /\ r.idx = IndexAsStated(r.i, r.j, Len(filtered.data))

\* C21: applyBoxcar with filterSize == 1 is the identity: for every input
\* sequence and every number of passes >= 0 the output equals the input
\* element by element
C21_BoxcarOfSizeOneIsIdentity ==
    pc = "filtered" /\ filtered.family = "boxcar" /\ filtered.filterSize = 1 =>
        /\ Len(filtered.result) = Len(filtered.data)
        /\ \A k \in 1..Len(filtered.data) : filtered.result[k] = filtered.data[k]

\* two passes of size 1 were run over a sequence that is not constant
C21_Witness ==
    /\ pc = "filtered"
    /\ filtered.family = "boxcar"
    /\ filtered.filterSize = 1
    /\ filtered.numPasses = 2
    /\ Len(filtered.data) >= 2
    /\ filtered.data[1] # filtered.data[2]
    /\ filtered.reads # {}

\* C22: applySavitzkyGolay called with a filterSize other than 5, 11 or 17
\* returns, for every input and every number of passes, exactly the output
\* of the same call with filterSize == 5 (a result is always returned)
C22_OtherSizesFallBackToFive ==
    pc = "filtered" /\ filtered.family = "sg"
                    /\ filtered.filterSize \notin {5, 11, 17} =>
        filtered.result = applySavitzkyGolay(filtered.data, 5, filtered.numPasses)

\* a pass of requested size 7 was run over a sequence that is not constant,
\* and the kernels of size 5 and 11 disagree on it
C22_Witness ==
    /\ pc = "filtered"
    /\ filtered.family = "sg"
    /\ filtered.filterSize = 7
    /\ filtered.numPasses >= 1
    /\ filtered.result # filtered.data
    /\ filtered.result # applySavitzkyGolay(filtered.data, 11, filtered.numPasses)

---------------------------------------------------------------------------
(* LocateSpec: the interval search of CubicSpline::evaluate and of         *)
(* CubicSpline::evaluateDerivative, one loop iteration a step; a behaviour *)
(* calls evaluate(xVal) and then evaluateDerivative(xVal)                  *)

\* n knots 0, 1, ..., n-1 with ordinates that alternate
GridData(n) ==
    [x |-> [k \in 1..n |-> Num(k - 1)],
     y |-> [k \in 1..n |-> IF k % 2 = 0 THEN Num(3) ELSE 0]]

\* the splines searched: one never computed, and fitted ones of 2.. knots
LocateSplines == {NewSpline} \cup {Fitted(GridData(n)) : n \in 2..MaxGrid}

\* the points looked up: knots, midpoints, points outside, and no number
LocatePoints == {Lit(k, 2) : k \in (-2)..(2 * MaxGrid)} \cup {NaN, PosInf, NegInf}

\* a call of evaluate that has not started
NoSearch == [op |-> "evaluate", at |-> "call", xVal |-> 0, left |-> 0, right |-> 0,
             found |-> <<>>]

\* an iteration that moves right also when xVal is the knot x[mid]
NarrowedBelowKnot(x, xVal, left, right) ==
    IF FLe(xVal, x[((left + right) \div 2) + 1])
    THEN [left |-> left, right |-> (left + right) \div 2]
    ELSE [left |-> (left + right) \div 2, right |-> right]

\* one iteration of the binary search: mid = (left + right) / 2, and
\* right = mid if xVal < x[mid], left = mid otherwise
Narrowed(x, xVal, left, right) ==
    IF FLt(xVal, x[((left + right) \div 2) + 1])
    THEN [left |-> left, right |-> (left + right) \div 2]
    ELSE [left |-> (left + right) \div 2, right |-> right]

LocateInit ==
    /\ spline \in LocateSplines
    /\ pc = "locate"
    /\ call = NoCall
    /\ calls = 0
    /\ args = NoArgs
    /\ stack = <<>>
    /\ retVal = NoValue
    /\ result = NoValue
    /\ input = NoInput
    /\ found = NoneFound
    /\ peaks = <<>>
    /\ integ = NoIntegration
    /\ minArea = NoValue
    /\ \E xVal \in LocatePoints : query = [NoSearch EXCEPT !.xVal = xVal]
    /\ filtered = NoFilter
    /\ nc = NoLoop
    /\ rom = NoTable
    /\ evals = NoEvals
    /\ main = NoMain

\* the entry of evaluate / evaluateDerivative: 0.0 from a spline that is not
\* computed, the first or last interval for an xVal at or beyond the ends,
\* and the binary search otherwise
LocateEnter ==
    /\ pc = "locate"
    /\ query.at = "call"
    /\ query' =
          IF ~spline.computed \/ Len(spline.x) = 0
          THEN [query EXCEPT !.at = "returned"]
          ELSE IF FLe(query.xVal, spline.x[1])
          THEN [query EXCEPT !.at = "returned", !.found = Append(@, 0)]
          ELSE IF FGe(query.xVal, spline.x[Len(spline.x)])
          THEN [query EXCEPT !.at = "returned",
                             !.found = Append(@, Len(spline.x) - 2)]
          ELSE [query EXCEPT !.at = "loop", !.left = 0,
                             !.right = Len(spline.x) - 1]
    /\ UNCHANGED queryFrame

\* while (right - left > 1): one iteration
LocateNarrow ==
    /\ pc = "locate"
    /\ query.at = "loop"
    /\ query.right - query.left > 1
    /\ \E r \in {Narrowed(spline.x, query.xVal, query.left, query.right)} :
          query' = [query EXCEPT !.left = r.left, !.right = r.right]
    /\ UNCHANGED queryFrame

\* the loop ends: i = left, and the polynomial of interval i is evaluated
LocateExit ==
    /\ pc = "locate"
    /\ query.at = "loop"
    /\ ~(query.right - query.left > 1)
    /\ query' = [query EXCEPT !.at = "returned", !.found = Append(@, query.left)]
    /\ UNCHANGED queryFrame

\* evaluate has returned: evaluateDerivative is called with the same xVal
LocateDerivative ==
    /\ pc = "locate"
    /\ query.at = "returned"
    /\ query.op = "evaluate"
    /\ query' = [query EXCEPT !.op = "evaluateDerivative", !.at = "call",
                              !.left = 0, !.right = 0]
    /\ UNCHANGED queryFrame

LocateNext ==
    \/ LocateEnter
    \/ LocateNarrow
    \/ LocateExit
    \/ LocateDerivative

LocateSpec == LocateInit /\ [][LocateNext]_vars

\* a call is not suspended: a step that can be taken is taken
LocateLive == LocateSpec /\ WF_vars(LocateNext)

\* index i (0-based) is the one the rule names for xVal among the knots x
IndexAsRuled(x, xVal, i) ==
    /\ i \in 0..(Len(x) - 2)
    /\ FLe(xVal, x[1]) => i = 0
    /\ FGe(xVal, x[Len(x)]) => i = Len(x) - 2
    /\ FGt(xVal, x[1]) /\ FLt(xVal, x[Len(x)]) =>
          /\ FLe(x[i + 1], xVal) /\ FLt(xVal, x[i + 2])
          /\ \A m \in 0..(Len(x) - 2) :
                FLe(x[m + 1], xVal) /\ FLt(xVal, x[m + 2]) => m = i

\* C24: on a computed spline with n >= 2 strictly increasing knots the
\* interval index i of evaluate and of evaluateDerivative is the same and
\* lies in 0..n-2: 0 for xVal <= x[0], n-2 for xVal >= x[n-1], otherwise the
\* one i with x[i] <= xVal < x[i+1]; and the binary search ends for every
\* xVal
C24_IntervalIndex ==
    /\ [](/\ spline.computed
          /\ Len(spline.x) >= 2
          /\ ~NotStrictlyIncreasing(spline.x)
          /\ query.at = "returned"
          => /\ Len(query.found) = IF query.op = "evaluate" THEN 1 ELSE 2
             /\ \A k \in 1..Len(query.found) :
                   IndexAsRuled(spline.x, query.xVal, query.found[k])
             /\ query.found[1] = Interval(spline, query.xVal)
             /\ query.op = "evaluateDerivative" => query.found[1] = query.found[2])
    /\ <>(query.at = "returned" /\ query.op = "evaluateDerivative")

\* both searches went through the loop for an xVal that is an inner knot,
\* and ended on the interval that begins at it
C24_Witness ==
    /\ spline.computed
    /\ Len(spline.x) = MaxGrid
    /\ query.at = "returned"
    /\ query.op = "evaluateDerivative"
    /\ query.xVal = spline.x[3]
    /\ query.found = <<2, 2>>

---------------------------------------------------------------------------
(* CrossingSpec: one call of CubicSpline::findCrossings, a sample or a     *)
(* bisection iteration a step                                              *)

\* the samples the searched splines are fitted to: a straight line through
\* the level 0 at a knot, a hump, and four knots with a dip
CrossingData ==
    {[x |-> <<0, Num(1), Num(2)>>, y |-> <<Num(-1), 0, Num(1)>>],
     [x |-> <<0, Num(1), Num(2)>>, y |-> <<0, Num(3), 0>>],
     [x |-> <<0, Num(1), Num(2), Num(4)>>, y |-> <<Num(3), 0, Num(3), Num(3)>>]}

\* the levels searched for
CrossingLevels == {0, Num(1), Lit(5, 2), Num(5)}

\* a call of findCrossings that has not started
NoScan == [at |-> "call", yVal |-> 0, xMin |-> 0, xMax |-> 0, dx |-> 0, i |-> 0,
           prevVal |-> 0, prevX |-> 0, xSample |-> 0, currVal |-> 0,
           xLeft |-> 0, xRight |-> 0, fLeft |-> 0, fRight |-> 0, iter |-> 0,
           crossings |-> <<>>, from |-> <<>>, vals |-> <<>>]

\* a bisection that always keeps the right half
BracketOnTheRight(q, xMid, fMid) ==
    [q EXCEPT !.xLeft = xMid, !.fLeft = fMid]

\* the bracket after an iteration that has not converged: the left half if
\* fLeft * fMid < 0, the right half otherwise
Bracket(q, xMid, fMid) ==
    IF FLt(FMul(q.fLeft, fMid), 0)
    THEN [q EXCEPT !.xRight = xMid, !.fRight = fMid]
    ELSE [q EXCEPT !.xLeft = xMid, !.fLeft = fMid]

\* the end of an iteration of the sampling loop: prevVal = currVal,
\* prevX = xSample, i++
Advanced(q) ==
    [q EXCEPT !.at = "scan", !.prevVal = q.currVal, !.prevX = q.xSample,
              !.i = q.i + 1]

\* crossings.push_back(xVal) for the sign change of iteration q.i
PushedBack(q, xVal) ==
    [q EXCEPT !.crossings = Append(@, xVal), !.from = Append(@, q.i)]

CrossingInit ==
    /\ spline \in {NewSpline} \cup {Fitted(data) : data \in CrossingData}
    /\ pc = "findCrossings"
    /\ call = NoCall
    /\ calls = 0
    /\ args = NoArgs
    /\ stack = <<>>
    /\ retVal = NoValue
    /\ result = NoValue
    /\ input = NoInput
    /\ found = NoneFound
    /\ peaks = <<>>
    /\ integ = NoIntegration
    /\ minArea = NoValue
    /\ \E yVal \in CrossingLevels :
          query = [NoScan EXCEPT !.yVal = yVal, !.xMin = 0,
                                 !.xMax = IF spline.computed
                                          THEN spline.x[Len(spline.x)] ELSE Num(2)]
    /\ filtered = NoFilter
    /\ nc = NoLoop
    /\ rom = NoTable
    /\ evals = NoEvals
    /\ main = NoMain

\* the entry of findCrossings: no crossings from a spline that is not
\* computed; otherwise dx, prevVal and prevX are set
CrossingsEnter ==
    /\ pc = "findCrossings"
    /\ query.at = "call"
    /\ query' =
          IF ~spline.computed \/ Len(spline.x) = 0
          THEN [query EXCEPT !.at = "returned"]
          ELSE [query EXCEPT
                   !.at = "scan",
                   !.dx = FDiv(FSub(query.xMax, query.xMin), Num(numSamples)),
                   !.prevVal = FSub(evaluate(spline, query.xMin), query.yVal),
                   !.prevX = query.xMin,
                   !.i = 1,
                   !.vals = <<FSub(evaluate(spline, query.xMin), query.yVal)>>]
    /\ UNCHANGED queryFrame

\* an iteration of the sampling loop up to its test prevVal * currVal < 0:
\* a sign change starts the bisection, anything else ends the iteration
CrossingsSample ==
    /\ pc = "findCrossings"
    /\ query.at = "scan"
    /\ query.i <= numSamples
    /\ \E xSample \in {SampleX(query.xMin, query.dx, query.i)} :
       \E currVal \in {FSub(evaluate(spline, xSample), query.yVal)} :
          query' =
             IF FLt(FMul(query.prevVal, currVal), 0)
             THEN [query EXCEPT !.at = "bisect", !.xSample = xSample,
                                !.currVal = currVal, !.vals = Append(@, currVal),
                                !.xLeft = query.prevX, !.xRight = xSample,
                                !.fLeft = query.prevVal, !.fRight = currVal,
                                !.iter = 0]
             ELSE Advanced([query EXCEPT !.xSample = xSample, !.currVal = currVal,
                                         !.vals = Append(@, currVal)])
    /\ UNCHANGED queryFrame

\* an iteration of the bisection loop: the midpoint is pushed when it has
\* converged; otherwise the bracket is halved, and the 50th iteration
\* pushes the midpoint of what is left
CrossingsBisect ==
    /\ pc = "findCrossings"
    /\ query.at = "bisect"
    /\ query.iter < maxBisect
    /\ \E xMid \in {FDiv(FAdd(query.xLeft, query.xRight), Num(2))} :
       \E fMid \in {FSub(evaluate(spline, xMid), query.yVal)} :
          query' =
             IF \/ FLt(FAbs(fMid), FTolerance)
                \/ FLt(FAbs(FSub(query.xRight, query.xLeft)), XTolerance)
             THEN Advanced(PushedBack(query, xMid))
             ELSE IF query.iter = maxBisect - 1
             THEN Advanced(PushedBack(Bracket(query, xMid, fMid),
                                      FDiv(FAdd(Bracket(query, xMid, fMid).xLeft,
                                                Bracket(query, xMid, fMid).xRight),
                                           Num(2))))
             ELSE [Bracket(query, xMid, fMid) EXCEPT !.iter = query.iter + 1]
    /\ UNCHANGED queryFrame

\* the sampling loop is over: crossings is returned
CrossingsReturn ==
    /\ pc = "findCrossings"
    /\ query.at = "scan"
    /\ query.i > numSamples
    /\ query' = [query EXCEPT !.at = "returned"]
    /\ UNCHANGED queryFrame

CrossingNext ==
    \/ CrossingsEnter
    \/ CrossingsSample
    \/ CrossingsBisect
    \/ CrossingsReturn

CrossingSpec == CrossingInit /\ [][CrossingNext]_vars

\* u and v have strictly opposite signs
Opposite(u, v) == (FLt(u, 0) /\ FGt(v, 0)) \/ (FGt(u, 0) /\ FLt(v, 0))

\* C25: findCrossings returns exactly one crossing for each pair of
\* consecutive samples (of the 1001 equally spaced ones on [xMin, xMax])
\* whose values minus the level have strictly opposite signs, and none
\* otherwise; each crossing lies inside its sample interval; the bisection
\* bracket keeps values of strictly opposite sign at its ends through its at
\* most 50 iterations; and the crossings are returned in ascending order
C25_OneCrossingPerSignChange ==
    /\ query.at = "bisect" =>
          /\ Opposite(query.fLeft, query.fRight)
          /\ query.iter \in 0..(maxBisect - 1)
          /\ FLe(query.prevX, query.xLeft)
          /\ FLe(query.xLeft, query.xRight)
          /\ FLe(query.xRight, query.xSample)
    /\ query.at = "returned" /\ spline.computed =>
          /\ Len(query.vals) = numSamples + 1
          /\ query.from =
                Ascending({i \in 1..numSamples :
                              Opposite(query.vals[i], query.vals[i + 1])})
          /\ Len(query.crossings) = Len(query.from)
          /\ \A k \in 1..Len(query.crossings) :
                /\ FLe(PrevX(query.xMin, query.dx, query.from[k]), query.crossings[k])
                /\ FLe(query.crossings[k],
                       SampleX(query.xMin, query.dx, query.from[k]))
          /\ \A k \in 1..(Len(query.crossings) - 1) :
                FLe(query.crossings[k], query.crossings[k + 1])

\* a call that returned more than one crossing
C25_Witness ==
    /\ spline.computed
    /\ query.at = "returned"
    /\ Len(query.crossings) >= 2
    /\ query.crossings[1] < query.crossings[2]

\* C28: findCrossings reports a crossing whenever the sampled signal passes
\* from strictly below the level to strictly above it (or the reverse), also
\* when samples in between have a value exactly equal to the level: for
\* samples i < k with values minus the level of strictly opposite sign and
\* every sample between them equal to the level, at least one returned
\* crossing lies in [x_i, x_k]
C28_CrossingThroughLevelSamples ==
    query.at = "returned" /\ spline.computed =>
        \A i \in 0..(numSamples - 1) : \A k \in (i + 1)..numSamples :
            (/\ Opposite(query.vals[i + 1], query.vals[k + 1])
             /\ \A m \in (i + 1)..(k - 1) : query.vals[m + 1] = 0) =>
                \E n \in 1..Len(query.crossings) :
                    /\ FLe(SampleX(query.xMin, query.dx, i), query.crossings[n])
                    /\ FLe(query.crossings[n], SampleX(query.xMin, query.dx, k))

\* the steps of the call return what the operator findCrossings gives
ScanIsFindCrossings ==
    query.at = "returned" =>
        query.crossings = findCrossings(spline, query.yVal, query.xMin, query.xMax)

---------------------------------------------------------------------------
(* MainSpec: a run of main, from the read of the configuration file to the *)
(* return, a stage a step; the files it reads are the environment's        *)

\* the configuration files: one that cannot be opened, one with fewer than
\* 8 lines, and complete ones with these filter types and sizes
ConfigFiles ==
    {[open |-> FALSE, lines |-> 0, filterType |-> 0, filterSize |-> 0],
     [open |-> TRUE, lines |-> 7, filterType |-> 1, filterSize |-> 3]}
    \cup
    {[open |-> TRUE, lines |-> 8, filterType |-> t, filterSize |-> z] :
        t \in 0..3, z \in {-2, 0, 3, 4}}

\* the rows x, y of the data files: a hump, a constant signal, the hump with
\* its rows out of order, and a file with an x that comes twice
DataRows ==
    {<<>>,
     <<<<Grid4[1], Num(-3)>>, <<Grid4[2], Num(4)>>, <<Grid4[3], Num(4)>>,
       <<Grid4[4], Num(-3)>>>>,
     <<<<Grid4[1], Num(4)>>, <<Grid4[2], Num(4)>>, <<Grid4[3], Num(4)>>,
       <<Grid4[4], Num(4)>>>>,
     <<<<Grid4[3], Num(4)>>, <<Grid4[1], Num(-3)>>, <<Grid4[4], Num(-3)>>,
       <<Grid4[2], Num(4)>>>>,
     <<<<GridBad[1], 0>>, <<GridBad[2], Num(4)>>, <<GridBad[3], Num(4)>>,
       <<GridBad[4], 0>>>>}

\* the data files: one that cannot be opened, and one for each DataRows
DataFiles ==
    {[open |-> FALSE, rows |-> <<>>]} \cup {[open |-> TRUE, rows |-> r] : r \in DataRows}

\* a filter size that is left even
Unadjusted(filterType, filterSize) == filterSize

\* Config::readFromFile: the filter size after its validation
Adjusted(filterType, filterSize) ==
    IF filterType # 0 /\ filterSize % 2 = 0 THEN filterSize + 1 ELSE filterSize

\* DataReader::isSorted on the rows read
IsSorted(rows) == \A i \in 2..Len(rows) : ~FLt(rows[i][1], rows[i - 1][1])

\* DataReader::sortData: the rows in ascending order of x (the rows of the
\* files that are out of order have distinct x)
RECURSIVE InsertRow(_, _)
InsertRow(q, row) ==
    IF q = <<>> THEN <<row>>
    ELSE IF FLt(row[1], Head(q)[1]) THEN <<row>> \o q
    ELSE <<Head(q)>> \o InsertRow(Tail(q), row)

RECURSIVE SortRows(_)
SortRows(rows) ==
    IF rows = <<>> THEN <<>> ELSE InsertRow(SortRows(Tail(rows)), Head(rows))

sortData(rows) == IF IsSorted(rows) THEN rows ELSE SortRows(rows)

\* the loop of DataReader::findAndShiftTMS from sample i (0-based) on:
\* tmsLocation at its end
RECURSIVE TmsLocation(_, _, _, _, _, _)
TmsLocation(xData, yData, baselineAdjustment, i, tmsLocation, maxY) ==
    IF i >= Len(xData) THEN tmsLocation
    ELSE IF /\ FGt(yData[i + 1], baselineAdjustment)
            /\ ~(i > 0 /\ FLt(yData[i + 1], yData[i]))
            /\ ~(i < Len(xData) - 1 /\ FLt(yData[i + 1], yData[i + 2]))
            /\ (FGt(xData[i + 1], tmsLocation) \/ FGt(yData[i + 1], maxY))
            /\ FGe(xData[i + 1], tmsLocation)
         THEN TmsLocation(xData, yData, baselineAdjustment, i + 1,
                          xData[i + 1], yData[i + 1])
         ELSE TmsLocation(xData, yData, baselineAdjustment, i + 1, tmsLocation, maxY)

\* xData after DataReader::findAndShiftTMS, for a non-empty xData
findAndShiftTMS(xData, yData, baselineAdjustment) ==
    [i \in 1..Len(xData) |->
        FSub(xData[i], TmsLocation(xData, yData, baselineAdjustment, 0,
                                   xData[1], yData[1]))]

\* the filter family main calls for a filterType
FamilyOf(filterType) ==
    IF filterType = 1 THEN "boxcar" ELSE IF filterType = 2 THEN "sg" ELSE "none"

MainInit ==
    /\ spline = NewSpline
    /\ pc = "config"
    /\ call = NoCall
    /\ calls = 0
    /\ args = NoArgs
    /\ stack = <<>>
    /\ retVal = NoValue
    /\ result = NoValue
    /\ input = NoInput
    /\ found = NoneFound
    /\ peaks = <<>>
    /\ integ = NoIntegration
    /\ minArea = NoValue
    /\ query = NoQuery
    /\ filtered = NoFilter
    /\ nc = NoLoop
    /\ rom = NoTable
    /\ evals = NoEvals
    /\ main = NoMain

\* main: config.readFromFile(configFile); false ends the run with exit code 1
ReadConfig ==
    /\ pc = "config"
    /\ \E file \in ConfigFiles :
          IF file.open /\ file.lines >= 8
          THEN /\ main' = [main EXCEPT
                              !.config = [@ EXCEPT
                                  !.baselineAdjustment = Num(-2),
                                  !.filterType = file.filterType,
                                  !.filterSize = Adjusted(file.filterType,
                                                          file.filterSize),
                                  !.filterPasses = 1],
                              !.configured = TRUE]
               /\ pc' = "data"
          ELSE /\ main' = [main EXCEPT !.exit = <<1>>]
               /\ pc' = "failed"
    /\ UNCHANGED <<splineVars, adaptiveVars, peakVars, query, filtered, nc, rom, evals>>

\* main: data.readFromFile(config.inputFilename); false ends the run with
\* exit code 1
ReadData ==
    /\ pc = "data"
    /\ \E file \in DataFiles :
          IF file.open /\ file.rows # <<>>
          THEN /\ input' = [xData |-> [i \in 1..Len(file.rows) |->
                                          sortData(file.rows)[i][1]],
                            yData |-> [i \in 1..Len(file.rows) |->
                                          sortData(file.rows)[i][2]],
                            baseline |-> main.config.baselineAdjustment]
               /\ pc' = "tms"
               /\ main' = main
          ELSE /\ input' = input
               /\ pc' = "failed"
               /\ main' = [main EXCEPT !.exit = <<1>>]
    /\ UNCHANGED <<splineVars, adaptiveVars, found, peaks, integ, minArea,
                   query, filtered, nc, rom, evals>>

\* main: data.findAndShiftTMS, data.correctBaseline, the write of
\* shifted_data.txt, and the choice of the filter
ShiftTMS ==
    /\ pc = "tms"
    /\ input' = [input EXCEPT
                    !.xData = findAndShiftTMS(input.xData, input.yData,
                                              main.config.baselineAdjustment)]
    /\ main' = [main EXCEPT !.files = @ \cup {"shifted_data.txt"}]
    /\ filtered' = [NoFilter EXCEPT
                       !.family = FamilyOf(main.config.filterType),
                       !.data = input.yData,
                       !.filterSize = main.config.filterSize,
                       !.numPasses = main.config.filterPasses]
    /\ pc' = "filter"
    /\ UNCHANGED <<splineVars, adaptiveVars, found, peaks, integ, minArea,
                   query, nc, rom, evals>>

\* main: filtering disabled, filteredY = data.yData
FilterDisabled ==
    /\ pc = "filter"
    /\ filtered.family = "none"
    /\ filtered' = [filtered EXCEPT !.result = filtered.data]
    /\ pc' = "filtered"
    /\ UNCHANGED filterFrame

\* main: filteredY is what the later stages work on; filtered_data.txt is
\* written if filterType != 0
SaveFiltered ==
    /\ pc = "filtered"
    /\ input' = [input EXCEPT !.yData = filtered.result]
    /\ main' = IF main.config.filterType # 0
               THEN [main EXCEPT !.files = @ \cup {"filtered_data.txt"}]
               ELSE main
    /\ pc' = "fit"
    /\ UNCHANGED <<splineVars, adaptiveVars, found, peaks, integ, minArea,
                   query, filtered, nc, rom, evals>>

\* main: the write of peak_data.txt, the report, and return 0
WriteResults ==
    /\ pc = "done"
    /\ \E written \in {{"peak_data.txt"}, {"peak_data.txt", "analysis.txt"}} :
          main' = [main EXCEPT !.files = @ \cup written, !.exit = <<0>>]
    /\ pc' = "exit"
    /\ UNCHANGED <<splineVars, adaptiveVars, peakVars, query, filtered, nc, rom, evals>>

MainNext ==
    \/ ReadConfig
    \/ ReadData
    \/ ShiftTMS
    \/ ApplyBoxcar
    \/ ApplySavitzkyGolay
    \/ FilterDisabled
    \/ SaveFiltered
    \/ Fit
    \/ DetectPeaks
    \/ IntegratePeaks
    \/ CalculateHydrogens
    \/ WriteResults

MainSpec == MainInit /\ [][MainNext]_vars

\* the stage main goes to from each stage
MainOrder ==
    {<<"config", "data">>, <<"data", "tms">>, <<"tms", "filter">>,
     <<"filter", "filtered">>, <<"filtered", "fit">>, <<"fit", "detect">>,
     <<"detect", "integrate">>, <<"integrate", "hydrogens">>,
     <<"hydrogens", "done">>, <<"done", "exit">>,
     <<"config", "failed">>, <<"data", "failed">>, <<"fit", "failed">>}

\* the stages from detectPeaks on
PeakStages == {"detect", "integrate", "hydrogens", "done", "exit"}

\* C27: in every run of main the stages happen in the order read
\* configuration, read data, TMS shift, filter, spline compute, detectPeaks,
\* integratePeaks, calculateHydrogens, write results; the three peak stages
\* are reached only after compute returned true; and a failure of the
\* configuration read, the data read or the compute ends the run with exit
\* code 1 before any peak is detected or any peak file is written
C27_StagesInOrder ==
    /\ [][pc' # pc => <<pc, pc'>> \in MainOrder]_vars
    /\ [][pc # "failed" /\ pc # "exit"]_vars
    /\ [](pc \in PeakStages => calls = 1 /\ call.ret /\ spline.computed)
    /\ [](peaks # <<>> \/ found # NoneFound => pc \in PeakStages \ {"detect"})
    /\ [](pc = "failed" <=> main.exit = <<1>>)
    /\ [](pc = "failed" =>
            /\ peaks = <<>>
            /\ found = NoneFound
            /\ main.files \cap {"peak_data.txt", "analysis.txt"} = {})
    /\ []("peak_data.txt" \in main.files <=> pc = "exit")
    /\ [](pc = "exit" <=> main.exit = <<0>>)

\* a run that went through every stage, the boxcar filter among them, found
\* a peak and returned 0
C27_Witness ==
    /\ pc = "exit"
    /\ main.exit = <<0>>
    /\ main.config.filterType = 1
    /\ peaks # <<>>
    /\ peaks[1].hydrogens >= 1
    /\ main.files = {"shifted_data.txt", "filtered_data.txt", "spline_fit.txt",
                     "peak_data.txt", "analysis.txt"}

\* every element of the sequence is its first one
IsConstant(data) == \A k \in 1..Len(data) : data[k] = data[1]

\* C29: after Config::readFromFile returned true with filterType != 0,
\* filterSize is odd; so in every run of main that applies the boxcar filter
\* with filterSize > 0 the number of terms summed for an output value,
\* 2 * ((filterSize - 1) / 2) + 1, is the divisor filterSize, and a constant
\* sequence is mapped to itself
C29_FilterSizeOdd ==
    /\ (main.configured /\ main.config.filterType # 0) =>
          main.config.filterSize % 2 = 1
    /\ (/\ pc \notin {"config", "data", "tms", "filter", "failed"}
        /\ main.config.filterType = 1
        /\ filtered.filterSize > 0) =>
          /\ filtered.family = "boxcar"
          /\ filtered.filterSize = main.config.filterSize
          /\ 2 * ((filtered.filterSize - 1) \div 2) + 1 = filtered.filterSize
          /\ IsConstant(filtered.data) => filtered.result = filtered.data

\* the boxcar filter of a size that the configuration file gave as 4 was
\* applied to a constant signal
C29_Witness ==
    /\ pc = "filtered"
    /\ main.config.filterType = 1
    /\ filtered.family = "boxcar"
    /\ filtered.filterSize = 5
    /\ filtered.numPasses >= 1
    /\ Len(filtered.data) >= 2
    /\ IsConstant(filtered.data)
    /\ filtered.reads # {}

\* the sum of the entries of a sequence of integers
RECURSIVE SumOf(_)
SumOf(q) == IF q = <<>> THEN 0 ELSE Head(q) + SumOf(Tail(q))

\* C30: for each Savitzky-Golay kernel size (5, 11, 17) the coefficient
\* table has exactly filterSize entries, is symmetric about its centre, and
\* its entries sum to the normalization constant (35, 429, 323); hence
\* sgPass maps every constant sequence of any length n >= 1 to itself,
\* reflection and clamping included
C30_KernelsNormalised ==
    /\ \A filterSize \in {5, 11, 17} :
          /\ Len(SgCoeffs(filterSize)) = filterSize
          /\ \A k \in 1..filterSize :
                SgCoeffs(filterSize)[k] = SgCoeffs(filterSize)[filterSize + 1 - k]
          /\ SumOf(SgCoeffs(filterSize)) = SgNorm(filterSize)
    /\ <<SgNorm(5), SgNorm(11), SgNorm(17)>> = <<35, 429, 323>>
    /\ (pc = "filtered" /\ filtered.family = "sg" /\ IsConstant(filtered.data)) =>
          filtered.result = filtered.data

\* passes of the 17-point kernel ran over a constant sequence that is shorter
\* than the kernel's half width, and returned it
C30_Witness ==
    /\ pc = "filtered"
    /\ filtered.family = "sg"
    /\ filtered.filterSize = 17
    /\ filtered.numPasses = MaxPasses
    /\ Len(filtered.data) = MaxData
    /\ IsConstant(filtered.data)
    /\ filtered.data[1] # 0
    /\ filtered.result = filtered.data
    /\ filtered.reads # {}

===========================================================================
